---- MODULE Spec2Model ----
(***************************************************************************)
(* Multi-platform crawl orchestration of agent-bds:                        *)
(*   crawlers/orchestrator.py  SearchOrchestrator (fan-out, aggregation)   *)
(*   crawlers/http_client.py   PoliteHttpClient  (per-domain pacing,       *)
(*                             retry/backoff, blocks, cache)               *)
(*   crawlers/adapters/base.py PlatformRegistry, error kinds               *)
(*                                                                         *)
(* Time is counted in ticks of 0.1 s.  Every random.uniform(a, b) of the   *)
(* source is drawn at one of the two ends of its range; rng[p] says which  *)
(* end the draws of platform p's task take.                                *)
(***************************************************************************)
EXTENDS Integers, Sequences, FiniteSets, TLC

\* ------------------------------------------------------------------------
\* Program constants (seconds or counts, as written in the source)
\* ------------------------------------------------------------------------
max_retries == 5
rate_limit_rpm == 15
TransportPermits == 3
DefaultMaxConcurrent == 5
DefaultTimeoutSeconds == 30
ClientTimeoutSeconds == 30
ConnectTimeoutSeconds == 15
CacheTtlSeconds == 300
BlockSeconds403 == 60
DefaultRetryAfter == 60
DedupKeyLen == 50

\* ------------------------------------------------------------------------
\* Bounds of the model
\* ------------------------------------------------------------------------
MaxSearches == 2
StartTime == 1000
IdleGapSeconds == 65
MaxListings == 3
MaxRegistrations == 4
MaxClockSeconds == 4
MaxUrls == 3
SlowSeconds == 5
MaxItems == 3
NumUserAgents == 2
RetryAfterSeconds == 120
PatientTimeoutSeconds == 120
MaxGets == 3

Sec(s) == s * 10

Min2(a, b) == IF a <= b THEN a ELSE b

MinOf(S) == CHOOSE x \in S : \A y \in S : x <= y

Range(s) == {s[i] : i \in 1..Len(s)}

Remove(s, x) == SelectSeq(s, LAMBDA y : y # x)

\* ------------------------------------------------------------------------
\* Registry, adapters, sites
\* ------------------------------------------------------------------------
AllPlatforms == {"batdongsan", "chotot", "mogi", "alonhadat", "nhatot"}

Registry3 == <<"batdongsan", "chotot", "nhatot">>

Registry4 == <<"batdongsan", "chotot", "mogi", "alonhadat">>

Registry5 == <<"batdongsan", "chotot", "mogi", "alonhadat", "nhatot">>

Domains == {"batdongsan.com.vn", "gateway.chotot.com", "mogi.vn", "alonhadat.com.vn"}

\* netloc of the URL build_search_url returns
Domain(p) ==
    CASE p = "batdongsan" -> "batdongsan.com.vn"
      [] p = "chotot" -> "gateway.chotot.com"
      [] p = "mogi" -> "mogi.vn"
      [] p = "alonhadat" -> "alonhadat.com.vn"
      [] p = "nhatot" -> "gateway.chotot.com"

\* the search URL of platform p for the query of the model (a query with a
\* price filter, so that the chotot and nhatot URLs differ)
Url(p) == p

SiteKinds ==
    {"ok", "empty", "parseerr", "s403", "s429", "s404", "s5xx",
     "connerr", "timeout", "hang"}

\* What the site of kind k answers to one request.  A "page" is the result
\* page in the format the adapter asks for (JSON from the API of chotot and
\* nhatot, HTML elsewhere); "html" is an HTML page without a listing card, as
\* an error page served with status 200; "garbage" is a body the adapter's
\* parse raises on (for the API adapters: JSON that is not an object).  A
\* "slow" site answers like an "ok" one, seconds later.  "s403c" and "s5xxc"
\* are a 403 and a 500 with a Set-Cookie header, "s429ra" and "s429date" a 429
\* with Retry-After in seconds and as an HTTP-date, "proxyerr" a request the
\* proxy fails.
Respond(k) ==
    CASE k = "ok" -> [code |-> 200, body |-> "page", exc |-> "none"]
      [] k = "slow" -> [code |-> 200, body |-> "page", exc |-> "none"]
      [] k = "html" -> [code |-> 200, body |-> "html", exc |-> "none"]
      [] k = "empty" -> [code |-> 200, body |-> "empty", exc |-> "none"]
      [] k = "parseerr" -> [code |-> 200, body |-> "garbage", exc |-> "none"]
      [] k = "s403" -> [code |-> 403, body |-> "none", exc |-> "none"]
      [] k = "s429" -> [code |-> 429, body |-> "none", exc |-> "none"]
      [] k = "s404" -> [code |-> 404, body |-> "none", exc |-> "none"]
      [] k = "s5xx" -> [code |-> 500, body |-> "none", exc |-> "none"]
      [] k = "s403c" -> [code |-> 403, body |-> "none", exc |-> "none"]
      [] k = "s5xxc" -> [code |-> 500, body |-> "none", exc |-> "none"]
      [] k = "s429ra" -> [code |-> 429, body |-> "none", exc |-> "none"]
      [] k = "s429date" -> [code |-> 429, body |-> "none", exc |-> "none"]
      [] k = "s400" -> [code |-> 400, body |-> "none", exc |-> "none"]
      [] k = "proxyerr" -> [code |-> 0, body |-> "none", exc |-> "proxy"]
      [] k = "connerr" -> [code |-> 0, body |-> "none", exc |-> "connect"]
      [] k = "timeout" -> [code |-> 0, body |-> "none", exc |-> "timeout"]
      [] k = "hang" -> [code |-> 0, body |-> "none", exc |-> "timeout"]

\* Ticks between sending a request and its response or exception.
Latency(k) ==
    CASE k = "timeout" -> Sec(ConnectTimeoutSeconds)
      [] k = "hang" -> Sec(ClientTimeoutSeconds)
      [] k = "slow" -> Sec(SlowSeconds)
      [] OTHER -> 1

\* ------------------------------------------------------------------------
\* Listings and deduplication
\* ------------------------------------------------------------------------
NoPrice == 0 - 1

L(id, pf, title, price) ==
    [id |-> id, platform |-> pf, title |-> title, price |-> price]

\* Python values a price is held in: None, a number, a str that is not a
\* number, a tuple
PyNone == [type |-> "None", value |-> 0]

PyNum(n) == [type |-> "number", value |-> n]

PyStr == [type |-> "str", value |-> 0]

PyTuple(n) == [type |-> "tuple", value |-> n]

\* a URL or an href: its scheme and host, and the parts of what follows them
Href(base, path) == [base |-> base, path |-> path]

\* the empty string as an href
NoHref == Href("", <<>>)

base_url(p) ==
    CASE p = "batdongsan" -> "https://batdongsan.com.vn"
      [] p = "chotot" -> "https://nha.chotot.com"
      [] p = "mogi" -> "https://mogi.vn"
      [] p = "alonhadat" -> "https://alonhadat.com.vn"
      [] p = "nhatot" -> "https://www.nhatot.com"

\* a listing card of an HTML result page: whether it has the title link the
\* adapter selects, the href and text of that link, the text of its price
Card(link, href, title, price_text) ==
    [link |-> link, href |-> href, title |-> title, price_text |-> price_text]

\* an element of "ads" in the JSON of the chotot API: whether it is an object,
\* and its list_id ("" when the key is missing), subject and price
Ad(dict, list_id, subject, price) ==
    [dict |-> dict, list_id |-> list_id, subject |-> subject, price |-> price]

\* the cards of the result page of an HTML site
Cards(p) ==
    CASE p = "batdongsan" ->
            << Card(TRUE, Href("", <<"/nha-pr", "1", ".html">>), <<"A", "b">>, "25 ty"),
               Card(TRUE, Href("", <<"/nha-pr", "2", ".html">>), <<" ", "a", "B", " ">>, "25 ty"),
               Card(TRUE, Href("", <<"/nha-pr", "3", ".html">>), <<"C">>, "30 ty"),
               Card(TRUE, Href("", <<"/nha-pr", "4", ".html">>), <<"C">>, "lien he"),
               Card(TRUE, Href("", <<"/nha-pr", "5", ".html">>), <<"D">>, "10 ty") >>
      [] p = "mogi" ->
            << Card(TRUE, Href(base_url(p), <<"/", "1", ".html">>), <<"G">>, "8 ty") >>
      [] p = "alonhadat" ->
            << Card(TRUE, Href("", <<"/", "1", ".html">>), <<"g", " ">>, "8 ty"),
               Card(TRUE, Href("", <<"/", "2", ".html">>), <<"H">>, "") >>
      [] OTHER -> <<>>

\* the "ads" of the JSON an API site answers with
Ads(p) ==
    CASE p = "chotot" ->
            << Ad(TRUE, "1", <<"a", "b">>, PyNum(25)),
               Ad(TRUE, "2", <<" ", "a", "B", " ">>, PyNum(25)),
               Ad(TRUE, "3", <<"E">>, PyNum(5)),
               Ad(TRUE, "4", <<"C">>, PyNum(0)) >>
      [] p = "nhatot" ->
            << Ad(TRUE, "1", <<"e">>, PyNum(5)),
               Ad(TRUE, "2", <<"F">>, PyNum(7)),
               Ad(TRUE, "3", <<"C">>, PyNone) >>
      [] OTHER -> <<>>

\* parse_vietnamese_price(price_text): a pair (number or None, unit) for
\* every text
parse_vietnamese_price(text) ==
    CASE text = "5 ty" -> PyTuple(5)
      [] text = "8 ty" -> PyTuple(8)
      [] text = "10 ty" -> PyTuple(10)
      [] text = "25 ty" -> PyTuple(25)
      [] text = "30 ty" -> PyTuple(30)
      [] OTHER -> PyTuple(NoPrice)

\* how the parse of one item ends
Made(l) == [kind |-> "listing", listing |-> l]

ReturnsNone == [kind |-> "None"]

Raises == [kind |-> "raise"]

\* UnifiedListing(id=, platform=, title=, price=, url=): price is declared
\* Optional[float], and the validation of the model raises on a value that is
\* neither None nor a number
UnifiedListing(id, pf, title, price, url) ==
    IF price.type \in {"None", "number"}
    THEN Made([id |-> id, platform |-> pf, title |-> title,
               price |-> IF price.type = "None" THEN NoPrice ELSE price.value,
               url |-> url])
    ELSE Raises

\* the listing id the adapter's regular expression finds in a URL, "" when it
\* matches nothing: -pr(\d+)\.html?$ for batdongsan, /(\d+)\.html?$ or
\* /(\d+)\.htm for the others
listing_id(p, url) ==
    LET path == url.path
    IN CASE p = "batdongsan" /\ Len(path) = 3 /\ path[1] = "/nha-pr"
               /\ path[3] \in {".htm", ".html"} -> path[2]
         [] p # "batdongsan" /\ Len(path) = 3 /\ path[1] = "/"
               /\ path[3] \in {".htm", ".html"} -> path[2]
         [] OTHER -> ""

\* _parse_listing_card, _parse_card, _parse_html_card of the HTML parses: they
\* hand the pair parse_vietnamese_price returns to UnifiedListing as price
_parse_listing_card(p, card) ==
    IF ~ card.link
    THEN ReturnsNone
    ELSE LET url == IF card.href # NoHref /\ card.href.base = ""
                    THEN Href(base_url(p), card.href.path)
                    ELSE card.href
             id == listing_id(p, url)
         IN UnifiedListing(IF id # "" THEN <<p, "_", id>> ELSE <<p, "_", "hash">>,
                           p, card.title,
                           parse_vietnamese_price(card.price_text), url)

\* the URL an API adapter builds for a list_id
ListingUrl(p, list_id) ==
    IF p = "nhatot"
    THEN Href(base_url(p), <<"/mua-ban-nha-dat/", list_id, ".htm">>)
    ELSE Href(base_url(p), <<"/", list_id, ".htm">>)

\* the API parse with the URL left relative to the site
_parse_api_listingRelative(p, ad) ==
    IF ~ ad.dict
    THEN Raises
    ELSE IF ad.list_id = ""
    THEN ReturnsNone
    ELSE IF ad.price.type = "str"
    THEN Raises
    ELSE UnifiedListing(<<p, "_", ad.list_id>>, p, ad.subject,
                        IF ad.price.type = "number" /\ ad.price.value # 0
                        THEN ad.price ELSE PyNone,
                        Href("", ListingUrl(p, ad.list_id).path))

\* _parse_api_listing of chotot, _parse_api_ad of nhatot: ad.get raises on an
\* element that is not an object, float(price) on a str that is no number
_parse_api_listing(p, ad) ==
    IF ~ ad.dict
    THEN Raises
    ELSE IF ad.list_id = ""
    THEN ReturnsNone
    ELSE IF ad.price.type = "str"
    THEN Raises
    ELSE UnifiedListing(<<p, "_", ad.list_id>>, p, ad.subject,
                        IF ad.price.type = "number" /\ ad.price.value # 0
                        THEN ad.price ELSE PyNone,
                        ListingUrl(p, ad.list_id))

\* the loop of the parse operations: try the item, append what is not None,
\* go on after an exception
ParseLoop(p, items, ParseItem(_, _)) ==
    LET F[i \in 0..Len(items)] ==
            IF i = 0 THEN <<>>
            ELSE LET o == ParseItem(p, items[i])
                 IN IF o.kind = "listing" THEN Append(F[i - 1], o.listing)
                    ELSE F[i - 1]
    IN F[Len(items)]

\* adapter.parse_search_results(html) for the cards soup.select finds
parse_search_results(p, cards) == ParseLoop(p, cards, _parse_listing_card)

\* adapter.parse_api_response(data) for data["ads"]
parse_api_response(p, ads) == ParseLoop(p, ads, _parse_api_listing)

LowerChar(c) ==
    CASE c = "A" -> "a" [] c = "B" -> "b" [] c = "C" -> "c" [] c = "D" -> "d"
      [] c = "E" -> "e" [] c = "F" -> "f" [] c = "G" -> "g" [] OTHER -> c

Lower(s) == [i \in 1..Len(s) |-> LowerChar(s[i])]

RECURSIVE LStrip(_)
LStrip(s) == IF s # <<>> /\ Head(s) = " " THEN LStrip(Tail(s)) ELSE s

RECURSIVE RStrip(_)
RStrip(s) ==
    IF s # <<>> /\ s[Len(s)] = " " THEN RStrip(SubSeq(s, 1, Len(s) - 1)) ELSE s

Strip(s) == RStrip(LStrip(s))

Take(s, n) == SubSeq(s, 1, Min2(n, Len(s)))

\* the key taken from the title as scraped, without lower()
DedupKeyCaseSensitive(l) ==
    [title |-> Take(Strip(l.title), DedupKeyLen),
     priced |-> (l.price # NoPrice /\ l.price # 0),
     price |-> IF l.price # NoPrice /\ l.price # 0 THEN l.price ELSE 0]

\* dedup_key = f"{title_norm[:50]}|{price_key}": the title part holds no
\* more than 50 characters and str(price) holds no "|", so two keys are equal
\* exactly when their title parts and their price parts are
DedupKey(l) ==
    [title |-> Take(Strip(Lower(l.title)), DedupKeyLen),
     priced |-> (l.price # NoPrice /\ l.price # 0),
     price |-> IF l.price # NoPrice /\ l.price # 0 THEN l.price ELSE 0]

\* the loop with its test turned round: a listing is kept when its key was
\* seen before
_deduplicate_listingsInverted(ls) ==
    LET F[i \in 0..Len(ls)] ==
            IF i = 0 THEN [seen |-> {}, unique |-> <<>>]
            ELSE LET prev == F[i - 1]
                     k == DedupKey(ls[i])
                 IN IF k \in prev.seen
                    THEN [seen |-> prev.seen \cup {k},
                          unique |-> Append(prev.unique, ls[i])]
                    ELSE [seen |-> prev.seen \cup {k}, unique |-> prev.unique]
    IN F[Len(ls)].unique

_deduplicate_listings(ls) ==
    LET F[i \in 0..Len(ls)] ==
            IF i = 0 THEN [seen |-> {}, unique |-> <<>>]
            ELSE LET prev == F[i - 1]
                     k == DedupKey(ls[i])
                 IN IF k \notin prev.seen
                    THEN [seen |-> prev.seen \cup {k},
                          unique |-> Append(prev.unique, ls[i])]
                    ELSE prev
    IN F[Len(ls)].unique

Rep(c, n) == [i \in 1..n |-> c]

\* UnifiedListing values a _deduplicate_listings call can be handed: titles
\* that differ in case and blanks only, titles that agree on their first 50
\* characters only, and prices present, zero and absent
ListingPool ==
    { L("a_1", "batdongsan", <<"A", "b">>, 25),
      L("b_1", "chotot", <<" ", "a", "B", " ">>, 25),
      L("a_2", "batdongsan", <<"C">>, 30),
      L("a_3", "batdongsan", <<"C">>, NoPrice),
      L("c_1", "homedy", <<"C">>, 0),
      L("a_4", "batdongsan", Rep("x", DedupKeyLen) \o <<"a">>, 25),
      L("b_3", "chotot", Rep("x", DedupKeyLen) \o <<"b">>, 25),
      L("b_4", "chotot", Rep("x", DedupKeyLen - 1) \o <<"b">>, 25) }

ListingLists == UNION {[1..k -> ListingPool] : k \in 0..MaxListings}

\* ------------------------------------------------------------------------
\* State
\* ------------------------------------------------------------------------
VARIABLES
    now,              \* clock, ticks
    registry,         \* key order of PlatformRegistry._instances
    site,             \* behaviour of each platform's site
    rng,              \* end of the range the random draws of a task take
    max_concurrent,   \* SearchOrchestrator.max_concurrent
    timeout_seconds,  \* SearchOrchestrator.timeout_seconds
    phase,            \* "idle", "running", "returned"
    searches,         \* number of search() calls started
    tpc,              \* position of each _search_platform task
    gpc,              \* position of each PoliteHttpClient.get call
    wake,             \* end of the sleep or request a get is in
    deadline,         \* expiry of asyncio.wait_for
    attempt,          \* loop variable of the retry loop
    result,           \* what the task returned to gather
    orch_queue,       \* waiters of SearchOrchestrator._semaphore
    http_queue,       \* waiters of PoliteHttpClient._semaphore
    stats,            \* PoliteHttpClient._domain_stats
    cache,            \* PoliteHttpClient._cache
    agg,              \* the AggregatedSearchResult search() returned
    entry,            \* what each get found when it was called
    got,              \* the tuple get returned to the task
    net_count,        \* network requests each get has sent
    sleeps,           \* sleeps each get has started
    cancel_at,        \* position of a get when wait_for cancelled it
    fetch_start,      \* time a task called wait_for
    fin,              \* time a task returned
    last_net,         \* time of the last request sent to a domain
    closest,          \* smallest gap seen between two requests to a domain
    enabled_platforms, \* SearchOrchestrator.enabled_platforms
    _instances,       \* PlatformRegistry._instances, the instance of each id
    reg_log,          \* the register calls made so far, in order
    stats0,           \* _domain_stats when the running search() was called
    dd_in,            \* argument of a _deduplicate_listings call
    dd_out,           \* what that call returned
    dd_again,         \* what a second call, on that result, returned
    dd_pc,            \* "input", "once", "twice"
    _status,          \* BasePlatformAdapter._status of each instance
    _blocked_until,   \* BasePlatformAdapter._blocked_until, 0 for None
    _request_count,   \* BasePlatformAdapter._request_count of each instance
    _error_count,     \* BasePlatformAdapter._error_count of each instance
    available,        \* what the last get_available call returned, and when
    gm_urls,          \* get_many: the urls argument
    gm_max_concurrent, \* get_many: the max_concurrent argument
    gm_pc,            \* get_many: position of the call and of each fetch_one
    gm_queue,         \* get_many: waiters of its semaphore
    gm_results,       \* get_many: what gather has for each fetch_one
    gm_processed,     \* get_many: the list it returned
    parse_call,       \* a parse operation called: adapter, operation, items
    parse_ret,        \* what that call returned
    g_pc,             \* one get on its own: position of the call
    g_attempt,        \* its loop variable attempt
    g_wake,           \* end of the sleep it is in
    g_deadline,       \* expiry of the wait_for around it
    g_net,            \* network requests it has sent
    g_backoffs,       \* backoff sleeps it has started
    g_seen,           \* kinds of answer its requests have had
    g_last,           \* the answer to its latest request
    g_ret,            \* the tuple it returned
    g_result,         \* the PlatformSearchResult made of that tuple
    proxy,            \* PoliteHttpClient.proxy
    proxy_url,        \* local proxy_url of the get
    last_user_agent,  \* RequestStats.last_user_agent of the domain
    request_headers,  \* User-Agent of the local request_headers
    _cookies,         \* names in the jar PoliteHttpClient._cookies[domain]
    cookies,          \* names in the jar the local cookies refers to
    g_alias,          \* the local cookies is the jar _cookies[domain]
    g_sent,           \* what the latest request was sent with
    g_rot,            \* what the handling of the latest 403 left
    _last_referer,    \* PoliteHttpClient._last_referer[domain], "" for none
    g_calls,          \* get calls made so far
    g_before          \* what the client held when the latest get was called

vars ==
    <<now, registry, site, rng, max_concurrent, timeout_seconds, phase,
      searches, tpc, gpc, wake, deadline, attempt, result, orch_queue,
      http_queue, stats, cache, agg, entry, got, net_count, sleeps,
      cancel_at, fetch_start, fin, last_net, closest, enabled_platforms,
      _instances, reg_log, stats0, dd_in, dd_out, dd_again, dd_pc,
      _status, _blocked_until, _request_count, _error_count, available, gm_urls, gm_max_concurrent, gm_pc,
      gm_queue, gm_results, gm_processed, parse_call, parse_ret, g_pc,
      g_attempt, g_wake, g_deadline, g_net, g_backoffs, g_seen, g_last, g_ret,
      g_result, proxy, proxy_url, last_user_agent, request_headers, _cookies,
      cookies, g_alias, g_sent, g_rot, _last_referer, g_calls, g_before>>

\* the variables of a get_many call
gmvars ==
    <<gm_urls, gm_max_concurrent, gm_pc, gm_queue, gm_results, gm_processed>>

\* the variables of a get observed on its own
getvars ==
    <<g_pc, g_attempt, g_wake, g_deadline, g_net, g_backoffs, g_seen, g_last,
      g_ret, g_result, proxy, proxy_url, last_user_agent, request_headers,
      _cookies, cookies, g_alias, g_sent, g_rot, _last_referer, g_calls,
      g_before>>

\* what the search actions never touch
aux ==
    <<enabled_platforms, _instances, reg_log, dd_in, dd_out, dd_again, dd_pc,
      _status, _blocked_until, _request_count, _error_count, available, gmvars, parse_call, parse_ret,
      getvars>>

\* platforms=None of SearchOrchestrator.__init__, and a list of ids
NoPlatforms == [given |-> FALSE, ids |-> {}]

PlatformList(S) == [given |-> TRUE, ids |-> S]

\* search(): all_platforms filtered to enabled_platforms "if specified",
\* which Python reads as: if it is neither None nor empty
Platforms ==
    IF enabled_platforms.given /\ enabled_platforms.ids # {}
    THEN SelectSeq(registry, LAMBDA p : p \in enabled_platforms.ids)
    ELSE registry

Candidates == Range(Platforms)

NoResult == [platform_id |-> "", status |-> "PENDING", listings |-> <<>>,
             error_type |-> "NONE"]

\* a task that ended by raising: gather(return_exceptions=True) hands the
\* exception object back in place of a PlatformSearchResult
RaisedResult == [platform_id |-> "", status |-> "EXCEPTION", listings |-> <<>>,
                 error_type |-> "NONE"]

NoAgg == [returned |-> FALSE, total_listings |-> 0, platforms_searched |-> 0,
          platforms_successful |-> 0, platforms_blocked |-> 0,
          platforms_error |-> 0, listings |-> <<>>, platform_results |-> <<>>]

RequestStats == [request_count |-> 0, error_count |-> 0, success_count |-> 0,
                 last_request_time |-> 0, blocked_until |-> 0,
                 consecutive_403s |-> 0]

NoEntry == [called |-> FALSE, blocked |-> FALSE, cached |-> FALSE]

NoCache == [body |-> "none", expires |-> 0]

NoRet == [returned |-> FALSE, body |-> "none", code |-> 0, err |-> FALSE]

\* the adapter classes and their platform_id attribute
AdapterClasses ==
    {"BatDongSanAdapter", "ChototAdapter", "MogiAdapter", "AlonhadatAdapter",
     "NhatotAdapter"}

platform_id(c) ==
    CASE c = "BatDongSanAdapter" -> "batdongsan"
      [] c = "ChototAdapter" -> "chotot"
      [] c = "MogiAdapter" -> "mogi"
      [] c = "AlonhadatAdapter" -> "alonhadat"
      [] c = "NhatotAdapter" -> "nhatot"

AdapterClass(p) == CHOOSE c \in AdapterClasses : platform_id(c) = p

NoInstance == [cls |-> "none", serial |-> 0]

\* an adapter instance: its class and which instantiation it is
Instance(c, n) == [cls |-> c, serial |-> n]

\* the registry after crawlers/adapters/__init__.py has registered the
\* adapters of reg, one register call each
Registered(reg) ==
    /\ registry = reg
    /\ reg_log = [i \in 1..Len(reg) |-> AdapterClass(reg[i])]
    /\ _instances = [p \in AllPlatforms |->
                       IF \E i \in 1..Len(reg) : reg[i] = p
                       THEN Instance(AdapterClass(p),
                                     CHOOSE i \in 1..Len(reg) : reg[i] = p)
                       ELSE NoInstance]

NoAvailable == [called |-> FALSE, at |-> 0, ids |-> <<>>]

\* BasePlatformAdapter.__init__ of every instance, and no get_available call
\* made yet
AdaptersConstructed ==
    /\ _status = [p \in AllPlatforms |-> "ACTIVE"]
    /\ _blocked_until = [p \in AllPlatforms |-> 0]
    /\ _request_count = [p \in AllPlatforms |-> 0]
    /\ _error_count = [p \in AllPlatforms |-> 0]
    /\ available = NoAvailable

\* ProxyConfig: no proxy configured, and one configured with enabled as given
NoProxy == [configured |-> FALSE, enabled |-> FALSE]

ProxyConfig(enabled) == [configured |-> TRUE, enabled |-> enabled]

NoSent == [sent |-> FALSE, ua |-> 0, cookies |-> {}, proxy |-> FALSE]

NoRot == [rotated |-> FALSE, ua |-> 0, jar |-> {}]

NoAnswer == "none"

NoReferer == ""

NoCall == [called |-> FALSE]

\* what a client just constructed holds for a domain, and no get called yet
ClientConstructed ==
    /\ g_pc = "none"
    /\ g_attempt = 0
    /\ g_wake = 0
    /\ g_deadline = 0
    /\ g_net = 0
    /\ g_backoffs = 0
    /\ g_seen = {}
    /\ g_last = NoAnswer
    /\ g_ret = NoRet
    /\ g_result = NoResult
    /\ proxy_url = FALSE
    /\ last_user_agent = 0
    /\ request_headers = 0
    /\ _cookies = {}
    /\ cookies = {}
    /\ g_alias = FALSE
    /\ g_sent = NoSent
    /\ g_rot = NoRot
    /\ _last_referer = NoReferer
    /\ g_calls = 0
    /\ g_before = NoCall

\* no get under observation, no proxy in the environment
NoGet ==
    /\ ClientConstructed
    /\ proxy = NoProxy

\* no parse operation under observation
NoParse ==
    /\ parse_call = [adapter |-> "", operation |-> "", items |-> <<>>]
    /\ parse_ret = [returned |-> FALSE, listings |-> <<>>]

\* no get_many call under observation
NoGetMany ==
    /\ gm_urls = <<>>
    /\ gm_max_concurrent = 0
    /\ gm_pc = [call |-> "none", fetch |-> <<>>]
    /\ gm_queue = <<>>
    /\ gm_results = <<>>
    /\ gm_processed = <<>>

\* no _deduplicate_listings call under observation
NoDedup ==
    /\ dd_in = <<>>
    /\ dd_out = <<>>
    /\ dd_again = <<>>
    /\ dd_pc = "none"

\* a PoliteHttpClient and a SearchOrchestrator just constructed
InitState ==
    /\ now = StartTime
    /\ rng \in [AllPlatforms -> {"lo", "hi"}]
    /\ phase = "idle"
    /\ searches = 0
    /\ tpc = [p \in AllPlatforms |-> "idle"]
    /\ gpc = [p \in AllPlatforms |-> "none"]
    /\ wake = [p \in AllPlatforms |-> 0]
    /\ deadline = [p \in AllPlatforms |-> 0]
    /\ attempt = [p \in AllPlatforms |-> 0]
    /\ result = [p \in AllPlatforms |-> NoResult]
    /\ orch_queue = <<>>
    /\ http_queue = <<>>
    /\ stats = [d \in Domains |-> RequestStats]
    /\ cache = [p \in AllPlatforms |-> NoCache]
    /\ agg = NoAgg
    /\ entry = [p \in AllPlatforms |-> NoEntry]
    /\ got = [p \in AllPlatforms |-> NoRet]
    /\ net_count = [p \in AllPlatforms |-> 0]
    /\ sleeps = [p \in AllPlatforms |-> 0]
    /\ cancel_at = [p \in AllPlatforms |-> "none"]
    /\ fetch_start = [p \in AllPlatforms |-> 0]
    /\ fin = [p \in AllPlatforms |-> 0]
    /\ last_net = [d \in Domains |-> 0]
    /\ closest = [d \in Domains |-> Sec(CacheTtlSeconds)]
    /\ stats0 = [d \in Domains |-> RequestStats]

\* SearchOrchestrator() with the defaults of its constructor
InitCommon ==
    /\ InitState
    /\ NoDedup
    /\ AdaptersConstructed
    /\ NoGetMany
    /\ NoParse
    /\ NoGet
    /\ max_concurrent = DefaultMaxConcurrent
    /\ timeout_seconds = DefaultTimeoutSeconds
    /\ enabled_platforms = NoPlatforms

\* Three registered adapters, every assignment of site behaviours.
Init ==
    /\ InitCommon
    /\ Registered(Registry3)
    /\ site \in [AllPlatforms -> SiteKinds]
    /\ \A p \in AllPlatforms \ Range(Registry3) : site[p] = "ok" /\ rng[p] = "lo"
    /\ rng["batdongsan"] = rng["chotot"]

\* Four registered adapters; sites that answer at once, never, or 403.
InitFour ==
    /\ InitCommon
    /\ Registered(Registry4)
    /\ site \in [AllPlatforms -> {"ok", "hang", "s403"}]
    /\ \A p \in AllPlatforms \ Range(Registry4) : site[p] = "ok" /\ rng[p] = "lo"

\* Five registered adapters, two of them on one domain; sites that answer at
\* once or never.
InitFive ==
    /\ InitCommon
    /\ Registered(Registry5)
    /\ site \in [AllPlatforms -> {"ok", "hang"}]
    /\ \E e \in {"lo", "hi"} : rng = [p \in AllPlatforms |-> e]

\* SearchOrchestrator(max_concurrent=1) and (max_concurrent=2): fewer permits
\* than registered adapters.
InitNarrow ==
    /\ InitState
    /\ NoDedup
    /\ AdaptersConstructed
    /\ NoGetMany
    /\ NoParse
    /\ NoGet
    /\ max_concurrent \in {1, 2}
    /\ timeout_seconds = DefaultTimeoutSeconds
    /\ enabled_platforms = NoPlatforms
    /\ Registered(Registry3)
    /\ site \in [AllPlatforms -> {"ok", "hang", "s5xx"}]
    /\ \A p \in AllPlatforms \ Range(Registry3) : site[p] = "ok"
    /\ \E e \in {"lo", "hi"} : rng = [p \in AllPlatforms |-> e]

\* Three registered adapters, two of them with supports_api; sites that
\* answer with the page asked for, an HTML page, an empty body, a body the
\* parse raises on, or never.
InitApi ==
    /\ InitCommon
    /\ Registered(Registry3)
    /\ site \in [AllPlatforms -> {"ok", "html", "empty", "parseerr", "hang"}]
    /\ \A p \in AllPlatforms \ Range(Registry3) : site[p] = "ok"
    /\ \E e \in {"lo", "hi"} : rng = [p \in AllPlatforms |-> e]

\* Three registered adapters, the two with listings on one domain; sites that
\* answer at once, after some seconds, or never.
InitOrder ==
    /\ InitCommon
    /\ Registered(Registry3)
    /\ site \in [AllPlatforms -> {"ok", "slow", "hang"}]
    /\ \A p \in AllPlatforms \ Range(Registry3) : site[p] = "ok"
    /\ \E e \in {"lo", "hi"} : rng = [p \in AllPlatforms |-> e]

\* the platforms argument of the constructor: None, the empty list, lists
\* of registered ids, a list with an id that is not registered
PlatformsArguments ==
    {NoPlatforms, PlatformList({}), PlatformList({"chotot"}),
     PlatformList({"batdongsan", "nhatot"}), PlatformList({"mogi"}),
     PlatformList({"chotot", "mogi"})}

\* SearchOrchestrator(platforms=...) over three registered adapters
InitSubset ==
    /\ InitState
    /\ NoDedup
    /\ AdaptersConstructed
    /\ NoGetMany
    /\ NoParse
    /\ NoGet
    /\ max_concurrent = DefaultMaxConcurrent
    /\ timeout_seconds = DefaultTimeoutSeconds
    /\ enabled_platforms \in PlatformsArguments
    /\ Registered(Registry3)
    /\ site \in [AllPlatforms -> {"ok", "hang"}]
    /\ \A p \in AllPlatforms \ Range(Registry3) : site[p] = "ok"
    /\ \E e \in {"lo", "hi"} : rng = [p \in AllPlatforms |-> e]

\* ------------------------------------------------------------------------
\* PoliteHttpClient helpers
\* ------------------------------------------------------------------------
Draw(p, lo, hi) == IF rng[p] = "lo" THEN lo ELSE hi

\* asyncio.sleep(random.uniform(0.1, 0.4))
PreSleep(p) == Draw(p, 1, 4)

\* min_interval = 60.0 / self.rate_limit_rpm
MinInterval == Sec(60) \div rate_limit_rpm

\* (min_interval - elapsed) * uniform(0.8, 2.0) + uniform(0.3, 1.5)
RateWait(p, elapsed) ==
    LET rem == MinInterval - elapsed
    IN Draw(p, (rem * 8 + 9) \div 10 + 3, rem * 2 + 15)

\* (2 ** attempt) * uniform(3.0, 6.0) + uniform(1.0, 3.0)
Backoff403(p, a) == Draw(p, (2 ^ a) * 30 + 10, (2 ^ a) * 60 + 30)

\* (2 ** attempt) * uniform(1.0, 2.0)
BackoffRetry(p, a) == Draw(p, (2 ^ a) * 10, (2 ^ a) * 20)

\* the cache check of a client with enable_cache off
CacheHitDisabled(u) == FALSE

\* encoded_url in self._cache, a TTLCache
CacheHit(u) == cache[u].expires # 0 /\ now < cache[u].expires

\* _is_blocked with the comparison turned round
_is_blockedReversed(d) == stats[d].blocked_until # 0 /\ now > stats[d].blocked_until

\* a client that never takes a domain for blocked
_is_blockedNever(d) == FALSE

_is_blocked(d) == stats[d].blocked_until # 0 /\ now < stats[d].blocked_until

_mark_blocked(d, seconds) ==
    [stats[d] EXCEPT !.blocked_until = now + Sec(seconds),
                     !.consecutive_403s = @ + 1,
                     !.error_count = @ + 1]

_mark_success(d) ==
    [stats[d] EXCEPT !.consecutive_403s = 0,
                     !.blocked_until = 0,
                     !.success_count = @ + 1]

\* an increment that writes back a count read before another get to the
\* domain added to it
CountRequestLost(d) ==
    [stats[d] EXCEPT !.last_request_time = now,
                     !.request_count =
                         IF \E q \in AllPlatforms :
                                /\ Domain(q) = d
                                /\ gpc[q] \in {"sem_wait", "presleep", "request", "backoff"}
                         THEN @ ELSE @ + 1]

\* tail of _wait_for_rate_limit
CountRequest(d) ==
    [stats[d] EXCEPT !.last_request_time = now, !.request_count = @ + 1]

\* a semaphore whose permit a task keeps when it returns
OrchHoldersKept == {p \in AllPlatforms : tpc[p] \in {"fetching", "done"}}

\* the tasks inside async with self._semaphore of _search_platform
OrchHolders == {p \in AllPlatforms : tpc[p] = "fetching"}

HttpHolders == {p \in AllPlatforms : gpc[p] \in {"presleep", "request", "backoff"}}

Ret(body, code, err) == [returned |-> TRUE, body |-> body, code |-> code, err |-> err]

\* ------------------------------------------------------------------------
\* SearchOrchestrator._search_platform, after the fetch
\* ------------------------------------------------------------------------
\* the error argument of the PlatformSearchResult constructed with this
\* status: the return of the try block, the only one with SUCCESS, passes
\* none; the three handlers pass "Request timed out" or str(e)
ErrorArg(status) == IF status = "SUCCESS" THEN "None" ELSE "str"

PSR(p, status, listings, et) ==
    [platform_id |-> p, status |-> status, listings |-> listings,
     error |-> ErrorArg(status), error_type |-> et]

\* capabilities.supports_api of the adapter classes
supports_api(p) == p \in {"chotot", "nhatot"}

\* json.loads(html) returns
IsJson(body) == body \in {"page", "garbage"}

\* the cards soup.select finds in a body: those of the result page of an HTML
\* site, none in another 200 body
Select(p, body) == IF body = "page" /\ ~ supports_api(p) THEN Cards(p) ELSE <<>>

\* data.get("ads", []) of the JSON an API site answers with
Loads(p, body) == IF body = "page" THEN Ads(p) ELSE <<>>

\* the parse without the handler of JSONDecodeError: a body that is not JSON
\* raises out of it
ParseRaisesNoFallback(p, body) ==
    IF supports_api(p) /\ ~ IsJson(body)
    THEN TRUE
    ELSE body = "garbage"

\* the parse of a fetched body raises: for an adapter with supports_api a
\* body that is not JSON goes to parse_search_results, which does not raise
ParseRaises(p, body) ==
    IF supports_api(p) /\ ~ IsJson(body)
    THEN FALSE
    ELSE body = "garbage"

\* the listings the parse returns when it does not raise
Listings(p, body) ==
    IF supports_api(p)
    THEN IF IsJson(body) THEN parse_api_response(p, Loads(p, body))
         ELSE parse_search_results(p, Select(p, body))
    ELSE parse_search_results(p, Select(p, body))

\* the listings the task of p has when its site answers with its result page
Page(p) == Listings(p, "page")

\* _search_platform without its catch-all handler: a parse exception leaves
\* the task as an exception
ClassifyUncaught(p, ret) ==
    IF ret.err \/ ret.body \in {"none", "empty"}
    THEN IF ret.code = 403 THEN PSR(p, "BLOCKED", <<>>, "BLOCKED")
         ELSE IF ret.code = 429 THEN PSR(p, "ERROR", <<>>, "RATE_LIMITED")
         ELSE PSR(p, "ERROR", <<>>, "NETWORK_ERROR")
    ELSE IF ParseRaises(p, ret.body)
         THEN RaisedResult
         ELSE PSR(p, "SUCCESS", Listings(p, ret.body), "NONE")

\* _search_platform raising BlockedError for both 403 and 429
ClassifyRateLimitAsBlocked(p, ret) ==
    IF ret.err \/ ret.body \in {"none", "empty"}
    THEN IF ret.code = 403 \/ ret.code = 429 THEN PSR(p, "BLOCKED", <<>>, "BLOCKED")
         ELSE PSR(p, "ERROR", <<>>, "NETWORK_ERROR")
    ELSE IF ParseRaises(p, ret.body)
         THEN PSR(p, "ERROR", <<>>, "PARSE_ERROR")
         ELSE PSR(p, "SUCCESS", Listings(p, ret.body), "NONE")

\* _search_platform with a parse exception taken for a failed fetch
ClassifyParseAsNetwork(p, ret) ==
    IF ret.err \/ ret.body \in {"none", "empty"}
    THEN IF ret.code = 403 THEN PSR(p, "BLOCKED", <<>>, "BLOCKED")
         ELSE IF ret.code = 429 THEN PSR(p, "ERROR", <<>>, "RATE_LIMITED")
         ELSE PSR(p, "ERROR", <<>>, "NETWORK_ERROR")
    ELSE IF ParseRaises(p, ret.body)
         THEN PSR(p, "ERROR", <<>>, "NETWORK_ERROR")
         ELSE PSR(p, "SUCCESS", Listings(p, ret.body), "NONE")

\* _search_platform testing only the error of the tuple, not the body
ClassifyEmptyAsSuccess(p, ret) ==
    IF ret.err
    THEN IF ret.code = 403 THEN PSR(p, "BLOCKED", <<>>, "BLOCKED")
         ELSE IF ret.code = 429 THEN PSR(p, "ERROR", <<>>, "RATE_LIMITED")
         ELSE PSR(p, "ERROR", <<>>, "NETWORK_ERROR")
    ELSE IF ParseRaises(p, ret.body)
         THEN PSR(p, "ERROR", <<>>, "PARSE_ERROR")
         ELSE PSR(p, "SUCCESS", Listings(p, ret.body), "NONE")

Classify(p, ret) ==
    IF ret.err \/ ret.body \in {"none", "empty"}
    THEN IF ret.code = 403 THEN PSR(p, "BLOCKED", <<>>, "BLOCKED")
         ELSE IF ret.code = 429 THEN PSR(p, "ERROR", <<>>, "RATE_LIMITED")
         ELSE PSR(p, "ERROR", <<>>, "NETWORK_ERROR")
    ELSE IF ParseRaises(p, ret.body)
         THEN PSR(p, "ERROR", <<>>, "PARSE_ERROR")
         ELSE PSR(p, "SUCCESS", Listings(p, ret.body), "NONE")

\* the expiry handled by the catch-all handler instead of its own
TimeoutResultAsError(p) == PSR(p, "ERROR", <<>>, "PARSE_ERROR")

TimeoutResult(p) == PSR(p, "TIMEOUT", <<>>, "TIMEOUT")

\* an expiry that stops waiting for the get but leaves it running
AbandonGet(p) == [gpc |-> gpc[p], queue |-> http_queue]

\* asyncio.wait_for at expiry: the awaited get is cancelled, which throws
\* CancelledError into it at its await and unwinds its async-with blocks
CancelGet(p) == [gpc |-> "cancelled", queue |-> Remove(http_queue, p)]

\* ------------------------------------------------------------------------
\* Actions
\* ------------------------------------------------------------------------
\* search(): resolve the candidates and create one task per candidate
StartSearch ==
    /\ phase \in {"idle", "returned"}
    /\ searches < MaxSearches
    /\ searches' = searches + 1
    /\ stats0' = stats
    /\ IF Platforms = <<>>
       THEN /\ phase' = "returned"
            /\ agg' = [NoAgg EXCEPT !.returned = TRUE]
       ELSE /\ phase' = "running"
            /\ agg' = NoAgg
    /\ tpc' = [p \in AllPlatforms |-> IF p \in Candidates THEN "wait_sem" ELSE "idle"]
    /\ orch_queue' = Platforms
    /\ gpc' = [p \in AllPlatforms |-> "none"]
    /\ result' = [p \in AllPlatforms |-> NoResult]
    /\ entry' = [p \in AllPlatforms |-> NoEntry]
    /\ got' = [p \in AllPlatforms |-> NoRet]
    /\ net_count' = [p \in AllPlatforms |-> 0]
    /\ sleeps' = [p \in AllPlatforms |-> 0]
    /\ cancel_at' = [p \in AllPlatforms |-> "none"]
    /\ attempt' = [p \in AllPlatforms |-> 0]
    /\ UNCHANGED <<aux, now, registry, site, rng, max_concurrent, timeout_seconds,
                   wake, deadline, http_queue, stats, cache, fetch_start, fin,
                   last_net, closest>>

\* a task that goes on without a permit of the orchestrator's semaphore
TaskStartEnabledNoCap(p) ==
    /\ phase = "running"
    /\ tpc[p] = "wait_sem"
    /\ orch_queue # <<>>
    /\ Head(orch_queue) = p

TaskStartEnabled(p) ==
    /\ phase = "running"
    /\ tpc[p] = "wait_sem"
    /\ orch_queue # <<>>
    /\ Head(orch_queue) = p
    /\ Cardinality(OrchHolders) < max_concurrent

\* _search_platform from the semaphore to the first suspension of get():
\* build the URL, wait_for(get), cache check, block check, rate limiter
TaskStart(p) ==
    /\ TaskStartEnabled(p)
    /\ orch_queue' = Tail(orch_queue)
    /\ fetch_start' = [fetch_start EXCEPT ![p] = now]
    /\ deadline' = [deadline EXCEPT ![p] = now + Sec(timeout_seconds)]
    /\ LET d == Domain(p)
           u == Url(p)
           elapsed == now - stats[d].last_request_time
       IN /\ entry' = [entry EXCEPT ![p] =
                         [called |-> TRUE,
                          blocked |-> stats[d].blocked_until > now,
                          cached |-> CacheHit(u)]]
          /\ IF CacheHit(u)
             THEN /\ got' = [got EXCEPT ![p] = Ret(cache[u].body, 200, FALSE)]
                  /\ result' = [result EXCEPT ![p] = Classify(p, Ret(cache[u].body, 200, FALSE))]
                  /\ tpc' = [tpc EXCEPT ![p] = "done"]
                  /\ gpc' = [gpc EXCEPT ![p] = "returned"]
                  /\ fin' = [fin EXCEPT ![p] = now]
                  /\ UNCHANGED <<wake, sleeps, stats, http_queue>>
             ELSE IF _is_blocked(d)
             THEN /\ got' = [got EXCEPT ![p] = Ret("none", 403, TRUE)]
                  /\ result' = [result EXCEPT ![p] = Classify(p, Ret("none", 403, TRUE))]
                  /\ tpc' = [tpc EXCEPT ![p] = "done"]
                  /\ gpc' = [gpc EXCEPT ![p] = "returned"]
                  /\ fin' = [fin EXCEPT ![p] = now]
                  /\ UNCHANGED <<wake, sleeps, stats, http_queue>>
             ELSE IF elapsed < MinInterval
             THEN /\ tpc' = [tpc EXCEPT ![p] = "fetching"]
                  /\ gpc' = [gpc EXCEPT ![p] = "rate_wait"]
                  /\ wake' = [wake EXCEPT ![p] = now + RateWait(p, elapsed)]
                  /\ sleeps' = [sleeps EXCEPT ![p] = @ + 1]
                  /\ UNCHANGED <<result, got, fin, stats, http_queue>>
             ELSE /\ tpc' = [tpc EXCEPT ![p] = "fetching"]
                  /\ gpc' = [gpc EXCEPT ![p] = "sem_wait"]
                  /\ stats' = [stats EXCEPT ![d] = CountRequest(d)]
                  /\ http_queue' = Append(http_queue, p)
                  /\ UNCHANGED <<result, got, fin, wake, sleeps>>
    /\ UNCHANGED <<aux, stats0, now, registry, site, rng, max_concurrent, timeout_seconds,
                   phase, searches, attempt, cache, agg, net_count, cancel_at,
                   last_net, closest>>

\* a sleep of get() ends: the rate-limit wait, the pre-request delay or a
\* retry backoff
Wake(p) ==
    /\ gpc[p] \in {"rate_wait", "presleep", "backoff"}
    /\ wake[p] <= now
    /\ LET d == Domain(p)
       IN CASE gpc[p] = "rate_wait" ->
                 /\ stats' = [stats EXCEPT ![d] = CountRequest(d)]
                 /\ gpc' = [gpc EXCEPT ![p] = "sem_wait"]
                 /\ http_queue' = Append(http_queue, p)
                 /\ UNCHANGED <<wake, attempt, net_count, sleeps, last_net, closest>>
            [] gpc[p] = "presleep" ->
                 /\ gpc' = [gpc EXCEPT ![p] = "request"]
                 /\ wake' = [wake EXCEPT ![p] = now + Latency(site[p])]
                 /\ net_count' = [net_count EXCEPT ![p] = @ + 1]
                 /\ last_net' = [last_net EXCEPT ![d] = now]
                 /\ closest' = [closest EXCEPT ![d] =
                                  IF last_net[d] = 0 THEN @
                                  ELSE Min2(@, now - last_net[d])]
                 /\ UNCHANGED <<stats, http_queue, attempt, sleeps>>
            [] gpc[p] = "backoff" ->
                 /\ gpc' = [gpc EXCEPT ![p] = "presleep"]
                 /\ attempt' = [attempt EXCEPT ![p] = @ + 1]
                 /\ wake' = [wake EXCEPT ![p] = now + PreSleep(p)]
                 /\ sleeps' = [sleeps EXCEPT ![p] = @ + 1]
                 /\ UNCHANGED <<stats, http_queue, net_count, last_net, closest>>
    /\ UNCHANGED <<aux, stats0, now, registry, site, rng, max_concurrent, timeout_seconds,
                   phase, searches, tpc, deadline, result, orch_queue, cache,
                   agg, entry, got, cancel_at, fetch_start, fin>>

\* a get that goes on without a permit
AcquireEnabledNoCap(p) ==
    /\ gpc[p] = "sem_wait"
    /\ http_queue # <<>>
    /\ Head(http_queue) = p

AcquireEnabled(p) ==
    /\ gpc[p] = "sem_wait"
    /\ http_queue # <<>>
    /\ Head(http_queue) = p
    /\ Cardinality(HttpHolders) < TransportPermits

\* async with self._semaphore, first iteration of the retry loop
Acquire(p) ==
    /\ AcquireEnabled(p)
    /\ http_queue' = Tail(http_queue)
    /\ gpc' = [gpc EXCEPT ![p] = "presleep"]
    /\ attempt' = [attempt EXCEPT ![p] = 0]
    /\ wake' = [wake EXCEPT ![p] = now + PreSleep(p)]
    /\ sleeps' = [sleeps EXCEPT ![p] = @ + 1]
    /\ UNCHANGED <<aux, stats0, now, registry, site, rng, max_concurrent, timeout_seconds,
                   phase, searches, tpc, deadline, result, orch_queue, stats,
                   cache, agg, entry, got, net_count, cancel_at, fetch_start, fin,
                   last_net, closest>>

\* What get() does with the answer to the request of attempt a.
ResponseOutcome(p) ==
    LET r == Respond(site[p])
        d == Domain(p)
        last == ~(attempt[p] < max_retries - 1)
        Back(ret, st, sleep) ==
            [returns |-> TRUE, ret |-> ret, stats |-> st, store |-> FALSE, sleep |-> 0]
        Again(sleep) ==
            [returns |-> FALSE, ret |-> Ret("none", 0, TRUE), stats |-> stats[d],
             store |-> FALSE, sleep |-> sleep]
    IN CASE r.exc = "timeout" ->
              IF last THEN Back(Ret("none", 0, TRUE), stats[d], 0)
              ELSE Again(BackoffRetry(p, attempt[p]))
         [] r.exc = "connect" ->
              IF last THEN Back(Ret("none", 0, TRUE), stats[d], 0)
              ELSE Again(BackoffRetry(p, attempt[p]))
         [] r.exc = "none" /\ r.code = 200 ->
              [returns |-> TRUE, ret |-> Ret(r.body, 200, FALSE),
               stats |-> _mark_success(d), store |-> TRUE, sleep |-> 0]
         [] r.exc = "none" /\ r.code = 403 ->
              IF last THEN Back(Ret("none", 403, TRUE), _mark_blocked(d, BlockSeconds403), 0)
              ELSE Again(Backoff403(p, attempt[p]))
         [] r.exc = "none" /\ r.code = 429 ->
              Back(Ret("none", 429, TRUE), _mark_blocked(d, DefaultRetryAfter), 0)
         [] r.exc = "none" /\ r.code = 404 ->
              Back(Ret("none", 404, TRUE), stats[d], 0)
         [] r.exc = "none" /\ r.code >= 500 ->
              IF last THEN Back(Ret("none", r.code, TRUE), stats[d], 0)
              ELSE Again(BackoffRetry(p, attempt[p]))
         [] OTHER -> Back(Ret("none", r.code, TRUE), stats[d], 0)

\* the response (or exception) of the request in flight arrives
Response(p) ==
    /\ gpc[p] = "request"
    /\ wake[p] <= now
    /\ LET out == ResponseOutcome(p)
           d == Domain(p)
           u == Url(p)
       IN /\ stats' = [stats EXCEPT ![d] = out.stats]
          /\ cache' = IF out.store
                      THEN [cache EXCEPT ![u] = [body |-> out.ret.body,
                                                 expires |-> now + Sec(CacheTtlSeconds)]]
                      ELSE cache
          /\ IF out.returns
             THEN /\ gpc' = [gpc EXCEPT ![p] = "returned"]
                  /\ IF tpc[p] = "fetching"
                     THEN /\ result' = [result EXCEPT ![p] = Classify(p, out.ret)]
                          /\ got' = [got EXCEPT ![p] = out.ret]
                          /\ tpc' = [tpc EXCEPT ![p] = "done"]
                          /\ fin' = [fin EXCEPT ![p] = now]
                     ELSE UNCHANGED <<result, got, tpc, fin>>
                  /\ UNCHANGED <<wake, sleeps>>
             ELSE /\ gpc' = [gpc EXCEPT ![p] = "backoff"]
                  /\ wake' = [wake EXCEPT ![p] = now + out.sleep]
                  /\ sleeps' = [sleeps EXCEPT ![p] = @ + 1]
                  /\ UNCHANGED <<result, got, tpc, fin>>
    /\ UNCHANGED <<aux, stats0, now, registry, site, rng, max_concurrent, timeout_seconds,
                   phase, searches, deadline, attempt, orch_queue, http_queue,
                   agg, entry, net_count, cancel_at, fetch_start, last_net,
                   closest>>

\* a timer of wait_for that still fires once the task has returned
TimeoutEnabledAfterReturn(p) ==
    /\ tpc[p] \in {"fetching", "done"}
    /\ deadline[p] # 0
    /\ deadline[p] <= now

\* the timer of wait_for fires while the task awaits the get
TimeoutEnabled(p) ==
    /\ tpc[p] = "fetching"
    /\ deadline[p] <= now

\* asyncio.wait_for expires: except asyncio.TimeoutError
Timeout(p) ==
    /\ TimeoutEnabled(p)
    /\ result' = [result EXCEPT ![p] = TimeoutResult(p)]
    /\ tpc' = [tpc EXCEPT ![p] = "done"]
    /\ fin' = [fin EXCEPT ![p] = now]
    /\ cancel_at' = [cancel_at EXCEPT ![p] = gpc[p]]
    /\ gpc' = [gpc EXCEPT ![p] = CancelGet(p).gpc]
    /\ http_queue' = CancelGet(p).queue
    /\ UNCHANGED <<aux, stats0, now, registry, site, rng, max_concurrent, timeout_seconds,
                   phase, searches, wake, deadline, attempt, orch_queue, stats,
                   cache, agg, entry, got, net_count, sleeps, fetch_start, last_net,
                   closest>>

\* results handed back in the order the tasks finished
GatherResultsAsCompleted ==
    LET done == SortSeq(Platforms, LAMBDA a, b : fin[a] < fin[b])
    IN [i \in 1..Len(done) |-> result[done[i]]]

\* results of asyncio.gather(*tasks, return_exceptions=True): task order
GatherResults == [i \in 1..Len(Platforms) |-> result[Platforms[i]]]

\* a gather that gives up the whole run when one platform did not succeed
PlatformResultsAllOrNothing(rs) ==
    IF \E i \in 1..Len(rs) : rs[i].status # "SUCCESS" THEN <<>> ELSE rs

\* the loop over results: exceptions are logged and skipped
PlatformResults(rs) == SelectSeq(rs, LAMBDA r : r.status # "EXCEPTION")

RECURSIVE AllListings(_)
AllListings(prs) ==
    IF prs = <<>> THEN <<>>
    ELSE Head(prs).listings \o AllListings(Tail(prs))

CountStatus(prs, S) == Cardinality({i \in 1..Len(prs) : prs[i].status \in S})

Successful(prs) == CountStatus(prs, {"SUCCESS"})

Blocked(prs) == CountStatus(prs, {"BLOCKED"})

\* the error count without the timeouts
ErroredNoTimeout(prs) == CountStatus(prs, {"ERROR"})

Errored(prs) == CountStatus(prs, {"ERROR", "TIMEOUT"})

AggregatedSearchResult(rs) ==
    LET prs == PlatformResults(rs)
        deduplicated == _deduplicate_listings(AllListings(prs))
    IN [returned |-> TRUE,
        total_listings |-> Len(deduplicated),
        platforms_searched |-> Len(prs),
        platforms_successful |-> Successful(prs),
        platforms_blocked |-> Blocked(prs),
        platforms_error |-> Errored(prs),
        listings |-> deduplicated,
        platform_results |-> prs]

\* gather has every task's result: search() aggregates and returns
Aggregate ==
    /\ phase = "running"
    /\ \A p \in Candidates : tpc[p] = "done"
    /\ agg' = AggregatedSearchResult(GatherResults)
    /\ phase' = "returned"
    /\ UNCHANGED <<aux, stats0, now, registry, site, rng, max_concurrent, timeout_seconds,
                   searches, tpc, gpc, wake, deadline, attempt, result,
                   orch_queue, http_queue, stats, cache, entry, got, net_count,
                   sleeps, cancel_at, fetch_start, fin, last_net, closest>>

Timers ==
    {wake[p] : p \in {q \in AllPlatforms : gpc[q] \in {"rate_wait", "presleep", "request", "backoff"}}}
    \cup {deadline[p] : p \in OrchHolders}

\* the event loop has nothing runnable: time passes until the next timer
Advance ==
    /\ phase = "running"
    /\ Timers # {}
    /\ \A t \in Timers : t > now
    /\ ~ \E p \in AllPlatforms : TaskStartEnabled(p) \/ AcquireEnabled(p)
    /\ now' = MinOf(Timers)
    /\ UNCHANGED <<aux, stats0, registry, site, rng, max_concurrent, timeout_seconds, phase,
                   searches, tpc, gpc, wake, deadline, attempt, result,
                   orch_queue, http_queue, stats, cache, agg, entry, got, net_count,
                   sleeps, cancel_at, fetch_start, fin, last_net, closest>>

SearchEnd == MinOf({t \in {fin[p] : p \in Candidates} : \A q \in Candidates : fin[q] <= t})

\* time passes between two search() calls
Idle ==
    /\ phase = "returned"
    /\ searches < MaxSearches
    /\ Platforms # <<>>
    /\ now = SearchEnd
    /\ now' = now + Sec(IdleGapSeconds)
    /\ UNCHANGED <<aux, stats0, registry, site, rng, max_concurrent, timeout_seconds, phase,
                   searches, tpc, gpc, wake, deadline, attempt, result,
                   orch_queue, http_queue, stats, cache, agg, entry, got, net_count,
                   sleeps, cancel_at, fetch_start, fin, last_net, closest>>

Next ==
    \/ StartSearch
    \/ \E p \in AllPlatforms : TaskStart(p)
    \/ \E p \in AllPlatforms : Wake(p)
    \/ \E p \in AllPlatforms : Acquire(p)
    \/ \E p \in AllPlatforms : Response(p)
    \/ \E p \in AllPlatforms : Timeout(p)
    \/ Aggregate
    \/ Advance
    \/ Idle

Spec == Init /\ [][Next]_vars

\* ------------------------------------------------------------------------
\* _deduplicate_listings on its own
\* ------------------------------------------------------------------------
\* everything but the registry and the deduplication under observation
svars ==
    <<now, site, rng, max_concurrent, timeout_seconds, phase, searches, tpc,
      gpc, wake, deadline, attempt, result, orch_queue, http_queue, stats,
      cache, agg, entry, got, net_count, sleeps, cancel_at, fetch_start, fin,
      last_net, closest, enabled_platforms, stats0, _status, _blocked_until, _request_count, _error_count,
      available, gmvars, parse_call, parse_ret, getvars>>

\* an orchestrator at rest and a list of listings to deduplicate
InitDedup ==
    /\ InitState
    /\ AdaptersConstructed
    /\ NoGetMany
    /\ NoParse
    /\ NoGet
    /\ rng = [p \in AllPlatforms |-> "lo"]
    /\ site = [p \in AllPlatforms |-> "ok"]
    /\ max_concurrent = DefaultMaxConcurrent
    /\ timeout_seconds = DefaultTimeoutSeconds
    /\ enabled_platforms = NoPlatforms
    /\ Registered(Registry3)
    /\ dd_in \in ListingLists
    /\ dd_out = <<>>
    /\ dd_again = <<>>
    /\ dd_pc = "input"

\* deduplicated = self._deduplicate_listings(all_listings)
Deduplicate ==
    /\ dd_pc = "input"
    /\ dd_out' = _deduplicate_listings(dd_in)
    /\ dd_pc' = "once"
    /\ UNCHANGED <<svars, registry, _instances, reg_log, dd_in, dd_again>>

\* the same call on the list the first call returned
DeduplicateAgain ==
    /\ dd_pc = "once"
    /\ dd_again' = _deduplicate_listings(dd_out)
    /\ dd_pc' = "twice"
    /\ UNCHANGED <<svars, registry, _instances, reg_log, dd_in, dd_out>>

NextDedup == Deduplicate \/ DeduplicateAgain

SpecDedup == InitDedup /\ [][NextDedup]_vars

SpecFour == InitFour /\ [][Next]_vars

SpecFive == InitFive /\ [][Next]_vars

SpecNarrow == InitNarrow /\ [][Next]_vars

SpecApi == InitApi /\ [][Next]_vars

SpecSubset == InitSubset /\ [][Next]_vars

SpecOrder == InitOrder /\ [][Next]_vars

\* What the five sites do during a search: every one answers, none ever
\* answers, every one refuses with 403 each time, or a mixture of the three.
LiveSites ==
    {[p \in AllPlatforms |-> k] : k \in {"ok", "hang", "s403"}}
    \cup {[p \in AllPlatforms |->
              CASE p \in {"batdongsan", "chotot"} -> "hang"
                [] p \in {"mogi", "nhatot"} -> "s403"
                [] OTHER -> "ok"]}

\* Five registered adapters, two of them on one domain, under an orchestrator
\* with fewer permits than adapters or with the default.
InitLive ==
    /\ InitState
    /\ NoDedup
    /\ AdaptersConstructed
    /\ NoGetMany
    /\ NoParse
    /\ NoGet
    /\ max_concurrent \in {2, DefaultMaxConcurrent}
    /\ timeout_seconds = DefaultTimeoutSeconds
    /\ enabled_platforms = NoPlatforms
    /\ Registered(Registry5)
    /\ site \in LiveSites
    /\ \E e \in {"lo", "hi"} : rng = [p \in AllPlatforms |-> e]

\* gather has every task's result
AggregateEnabled == phase = "running" /\ \A p \in Candidates : tpc[p] = "done"

\* the steps of the tasks, of the timers and of the caller
NextOfTasks ==
    \/ StartSearch
    \/ \E p \in AllPlatforms : TaskStart(p)
    \/ \E p \in AllPlatforms : Wake(p)
    \/ \E p \in AllPlatforms : Acquire(p)
    \/ \E p \in AllPlatforms : Response(p)
    \/ \E p \in AllPlatforms : Timeout(p)
    \/ Advance
    \/ Idle

\* the event loop runs every callback that is ready and fires every timer
\* that is due, search() goes on once gather has every result (weak fairness
\* of Aggregate, its enabledness written out), and the caller goes on to its
\* next search
SpecLive ==
    /\ InitLive
    /\ [][Next]_vars
    /\ WF_vars(NextOfTasks)
    /\ ([]<>(~AggregateEnabled) \/ []<><<Aggregate>>_vars)

TypeOK ==
    /\ phase \in {"idle", "running", "returned"}
    /\ \A p \in AllPlatforms :
         /\ tpc[p] \in {"idle", "wait_sem", "fetching", "done"}
         /\ gpc[p] \in {"none", "rate_wait", "sem_wait", "presleep", "request",
                        "backoff", "returned", "cancelled"}

\* ------------------------------------------------------------------------
\* Properties
\* ------------------------------------------------------------------------
Kept(l) == \E j \in 1..Len(agg.listings) : agg.listings[j] = l

KeptKey(l) == \E j \in 1..Len(agg.listings) : DedupKey(agg.listings[j]) = DedupKey(l)

NumStatus(S) ==
    Cardinality({i \in 1..Len(agg.platform_results) : agg.platform_results[i].status \in S})

\* C1: whatever the sites of the candidate platforms answer, search returns an
\* AggregatedSearchResult, and every listing of a platform whose task ended
\* SUCCESS is in the result's listings unless it was dropped as the duplicate
\* of a listing that is in them.
C1_PartialFailure ==
    phase = "returned" =>
        /\ agg.returned
        /\ \A p \in Candidates :
             result[p].status = "SUCCESS" =>
                 \A i \in 1..Len(result[p].listings) :
                     \/ Kept(result[p].listings[i])
                     \/ KeptKey(result[p].listings[i])

\* one platform succeeded, every other failed, and its listings came back
C1_Witness ==
    /\ phase = "returned"
    /\ searches = 1
    /\ result["chotot"].status = "SUCCESS"
    /\ result["batdongsan"].status = "TIMEOUT"
    /\ result["nhatot"].status = "ERROR"
    /\ agg.total_listings = 3
    /\ ~ Kept(Page("chotot")[2])

\* C2 (as claimed): in one search the outcome of a platform depends on its own
\* site only; so a platform whose site answers 200 at once with a well-formed
\* page ends SUCCESS with the listings of that page whatever the sites of the
\* other candidates do.
C2_OwnSiteOnly ==
    \A p \in Candidates :
        (searches = 1 /\ tpc[p] = "done" /\ site[p] = "ok") =>
            /\ result[p].status = "SUCCESS"
            /\ Len(result[p].listings) = Len(Page(p))

\* C3 (as claimed): default configuration, three adapters, A answers 200 with
\* five listings, B answers 403 on every attempt, C never answers: the search
\* reports 3 searched, 1 successful, 1 blocked (B is BLOCKED), C among the
\* errors, and the deduplicated count of A's listings.
C3_Scenario ==
    ( /\ phase = "returned"
      /\ searches = 1
      /\ registry = Registry3
      /\ site["batdongsan"] = "ok"
      /\ site["chotot"] = "s403"
      /\ site["nhatot"] = "hang" ) =>
        /\ agg.platforms_searched = 3
        /\ agg.platforms_successful = 1
        /\ agg.platforms_blocked = 1
        /\ result["chotot"].status = "BLOCKED"
        /\ agg.platforms_error = 1
        /\ agg.total_listings = Len(_deduplicate_listings(Page("batdongsan")))

\* C4: the result search returns has exactly one PlatformSearchResult for each
\* candidate adapter, the one its task returned, and platforms_searched is the
\* number of candidates.
C4_OnePerCandidate ==
    phase = "returned" =>
        /\ Len(agg.platform_results) = Cardinality(Candidates)
        /\ agg.platforms_searched = Cardinality(Candidates)
        /\ \A p \in Candidates :
             /\ Cardinality({i \in 1..Len(agg.platform_results) :
                               agg.platform_results[i].platform_id = p}) = 1
             /\ \E i \in 1..Len(agg.platform_results) :
                  agg.platform_results[i] = result[p]

\* a search in which no platform succeeded, each in another way
C4_Witness ==
    /\ phase = "returned"
    /\ result["batdongsan"].status = "BLOCKED"
    /\ result["chotot"].status = "TIMEOUT"
    /\ result["nhatot"].error_type = "PARSE_ERROR"
    /\ Len(agg.platform_results) = 3

\* C5: in the result search returns, platforms_successful, platforms_blocked
\* and platforms_error count the platform_results with status SUCCESS, BLOCKED
\* and ERROR-or-TIMEOUT, the three add up to platforms_searched, and
\* total_listings is the length of the listings.
C5_CountsReconcile ==
    phase = "returned" =>
        /\ agg.platforms_successful = NumStatus({"SUCCESS"})
        /\ agg.platforms_blocked = NumStatus({"BLOCKED"})
        /\ agg.platforms_error = NumStatus({"ERROR", "TIMEOUT"})
        /\ agg.platforms_successful + agg.platforms_blocked + agg.platforms_error
             = agg.platforms_searched
        /\ agg.total_listings = Len(agg.listings)

\* a result with a success, a block and a timeout to count
C5_Witness ==
    /\ phase = "returned"
    /\ agg.platforms_successful = 1
    /\ agg.platforms_blocked = 1
    /\ agg.platforms_error = 1
    /\ \E p \in Candidates : result[p].status = "TIMEOUT"
    /\ agg.total_listings > 0

\* C6 (as claimed): two network requests to one domain, retries of one get
\* included, are never less than (60 / rate_limit_rpm) * 0.8 seconds apart.
C6_MinGap ==
    \A d \in Domains : closest[d] >= (MinInterval * 8) \div 10

\* C7 (as claimed): a get called for a domain whose blocked_until is in the
\* future returns at once with no body, status 403 and an error, after no
\* sleep and no request, and the platform is reported BLOCKED.
C7_BlockedFailsFast ==
    \A p \in Candidates :
        (entry[p].called /\ entry[p].blocked) =>
            /\ tpc[p] = "done"
            /\ got[p] = Ret("none", 403, TRUE)
            /\ fin[p] = fetch_start[p]
            /\ net_count[p] = 0
            /\ sleeps[p] = 0
            /\ result[p].status = "BLOCKED"

\* C7 (amended): the same, for a get whose URL is not answered from the cache.
C7_BlockedFailsFastUncached ==
    \A p \in Candidates :
        (entry[p].called /\ entry[p].blocked /\ ~ entry[p].cached) =>
            /\ tpc[p] = "done"
            /\ got[p] = Ret("none", 403, TRUE)
            /\ fin[p] = fetch_start[p]
            /\ net_count[p] = 0
            /\ sleeps[p] = 0
            /\ result[p].status = "BLOCKED"

\* a get that found its domain blocked and nothing in the cache
C7_Witness ==
    \E p \in Candidates :
        /\ entry[p].blocked
        /\ ~ entry[p].cached
        /\ result[p].status = "BLOCKED"
        /\ stats[Domain(p)].blocked_until > now

\* C8: a platform's fetch is never still running after timeout_seconds, and a
\* task that ended without its get having returned ended with status TIMEOUT,
\* error kind TIMEOUT and no listings, in whatever state the get was.
C8_Timeout ==
    \A p \in AllPlatforms :
        /\ tpc[p] = "fetching" => now <= fetch_start[p] + Sec(timeout_seconds)
        /\ (tpc[p] = "done" /\ ~ got[p].returned) =>
              /\ result[p].status = "TIMEOUT"
              /\ result[p].error_type = "TIMEOUT"
              /\ result[p].listings = <<>>
              /\ fin[p] = fetch_start[p] + Sec(timeout_seconds)

\* two tasks expired, one in a retry backoff and one with a request in flight
C8_Witness ==
    \E p, q \in Candidates :
        /\ result[p].status = "TIMEOUT"
        /\ result[q].status = "TIMEOUT"
        /\ cancel_at[p] = "backoff"
        /\ cancel_at[q] = "request"

\* C9: once a task has ended by expiry its get is cancelled: it is in no
\* sleep, has no request in flight, and neither holds nor waits for the
\* transport semaphore.
C9_Cancelled ==
    \A p \in AllPlatforms :
        (tpc[p] = "done" /\ result[p].status = "TIMEOUT") =>
            /\ gpc[p] = "cancelled"
            /\ p \notin HttpHolders
            /\ p \notin Range(http_queue)

\* a get cancelled in a retry backoff, after two requests, holding a permit
C9_Witness ==
    \E p \in Candidates :
        /\ phase = "returned"
        /\ result[p].status = "TIMEOUT"
        /\ cancel_at[p] = "backoff"
        /\ net_count[p] >= 2
        /\ gpc[p] = "cancelled"

\* C10: when get returns a failure the platform's result has no listings and
\* is BLOCKED with kind BLOCKED for status 403, ERROR with kind RATE_LIMITED
\* for status 429, and ERROR otherwise.
C10_FailureMapping ==
    \A p \in Candidates :
        (tpc[p] = "done" /\ got[p].returned /\ got[p].err) =>
            /\ result[p].listings = <<>>
            /\ got[p].code = 403 =>
                  (result[p].status = "BLOCKED" /\ result[p].error_type = "BLOCKED")
            /\ got[p].code = 429 =>
                  (result[p].status = "ERROR" /\ result[p].error_type = "RATE_LIMITED")
            /\ got[p].code \notin {403, 429} => result[p].status = "ERROR"

\* a rate-limited platform and a platform with another failure in one search
C10_Witness ==
    \E p, q \in Candidates :
        /\ got[p].code = 429
        /\ result[p].error_type = "RATE_LIMITED"
        /\ got[q].code = 404
        /\ result[q].status = "ERROR"

\* ------------------------------------------------------------------------
\* PlatformRegistry on its own
\* ------------------------------------------------------------------------
\* the class-level dictionaries as the class statement leaves them
InitRegistry ==
    /\ InitState
    /\ NoDedup
    /\ AdaptersConstructed
    /\ NoGetMany
    /\ NoParse
    /\ NoGet
    /\ rng = [p \in AllPlatforms |-> "lo"]
    /\ site = [p \in AllPlatforms |-> "ok"]
    /\ max_concurrent = DefaultMaxConcurrent
    /\ timeout_seconds = DefaultTimeoutSeconds
    /\ enabled_platforms = NoPlatforms
    /\ registry = <<>>
    /\ reg_log = <<>>
    /\ _instances = [p \in AllPlatforms |-> NoInstance]

\* a register that leaves an id alone once it has an instance
StoreKeepingFirst(c, n) ==
    IF _instances[platform_id(c)] = NoInstance
    THEN [_instances EXCEPT ![platform_id(c)] = Instance(c, n)]
    ELSE _instances

\* cls._instances[instance.platform_id] = instance
Store(c, n) == [_instances EXCEPT ![platform_id(c)] = Instance(c, n)]

\* PlatformRegistry.register(adapter_class): a dict keeps the place of a key
\* that is assigned again
register(c) ==
    /\ Len(reg_log) < MaxRegistrations
    /\ reg_log' = Append(reg_log, c)
    /\ _instances' = Store(c, Len(reg_log) + 1)
    /\ registry' = IF platform_id(c) \in Range(registry)
                   THEN registry
                   ELSE Append(registry, platform_id(c))
    /\ UNCHANGED <<svars, dd_in, dd_out, dd_again, dd_pc>>

\* PlatformRegistry.get(platform_id): None for a key that is not there
get(p) == IF p \in Range(registry) THEN _instances[p] ELSE NoInstance

\* PlatformRegistry.get_all()
get_all == [p \in Range(registry) |-> _instances[p]]

NextRegistry == \E c \in AdapterClasses : register(c)

SpecRegistry == InitRegistry /\ [][NextRegistry]_vars

\* ------------------------------------------------------------------------
\* BasePlatformAdapter.status and PlatformRegistry.get_available on their own
\* ------------------------------------------------------------------------
\* the values _blocked_until holds: None, or a time within the run
BlockTimes == {0} \cup {StartTime + Sec(t) : t \in 1..(MaxClockSeconds - 1)}

\* registered adapters, some of them with _blocked_until set.  No statement of
\* the source assigns the attribute after __init__; it is drawn here from the
\* values of its declared type, and _status keeps the one value the source
\* assigns to it.
InitStatus ==
    /\ InitState
    /\ NoDedup
    /\ rng = [p \in AllPlatforms |-> "lo"]
    /\ site = [p \in AllPlatforms |-> "ok"]
    /\ max_concurrent = DefaultMaxConcurrent
    /\ timeout_seconds = DefaultTimeoutSeconds
    /\ enabled_platforms = NoPlatforms
    /\ Registered(Registry3)
    /\ _status = [p \in AllPlatforms |-> "ACTIVE"]
    /\ _blocked_until \in [AllPlatforms -> BlockTimes]
    /\ \A p \in AllPlatforms \ Range(Registry3) : _blocked_until[p] = 0
    /\ _request_count = [p \in AllPlatforms |-> 0]
    /\ _error_count = [p \in AllPlatforms |-> 0]
    /\ available = NoAvailable
    /\ NoGetMany
    /\ NoParse
    /\ NoGet

\* a status that reads BLOCKED until something clears _blocked_until
statusNoExpiry(p) ==
    IF _blocked_until[p] # 0 THEN "BLOCKED" ELSE _status[p]

\* the status property: utcnow() < _blocked_until
status(p) ==
    IF _blocked_until[p] # 0 /\ now < _blocked_until[p]
    THEN "BLOCKED"
    ELSE _status[p]

\* an adapter that is left out once its platform's search did not succeed
is_availableUnlessFailed(p) ==
    status(p) = "ACTIVE" /\ result[p].status \notin {"BLOCKED", "ERROR", "TIMEOUT"}

is_available(p) == status(p) = "ACTIVE"

\* what the search state is left as by a step that is not a search step
SearchAtRest ==
    UNCHANGED <<site, rng, max_concurrent, timeout_seconds, phase, searches,
                tpc, gpc, wake, deadline, attempt, result, orch_queue,
                http_queue, stats, cache, agg, entry, got, net_count, sleeps,
                cancel_at, fetch_start, fin, last_net, closest,
                enabled_platforms, stats0>>

\* PlatformRegistry.get_available(): the instances in dictionary order
get_available ==
    /\ available' = [called |-> TRUE, at |-> now,
                     ids |-> SelectSeq(registry, is_available)]
    /\ SearchAtRest
    /\ UNCHANGED <<now, registry, _instances, reg_log, dd_in, dd_out, dd_again,
                   dd_pc, _status, _blocked_until, _request_count, _error_count, gmvars, parse_call,
                   parse_ret, getvars>>

\* a second passes and nothing runs
Tick ==
    /\ now < StartTime + Sec(MaxClockSeconds)
    /\ now' = now + Sec(1)
    /\ SearchAtRest
    /\ UNCHANGED <<registry, _instances, reg_log, dd_in, dd_out, dd_again,
                   dd_pc, _status, _blocked_until, _request_count, _error_count, available, gmvars,
                   parse_call, parse_ret, getvars>>

NextStatus == get_available \/ Tick

SpecStatus == InitStatus /\ [][NextStatus]_vars

\* Searches with get_available calls between them: three adapters just
\* constructed, a site that answers, one that refuses with 403, one that
\* answers 429 and one that never answers.
InitFrame ==
    /\ InitCommon
    /\ Registered(Registry3)
    /\ site \in [AllPlatforms -> {"ok", "s403", "s429", "hang"}]
    /\ \A p \in AllPlatforms \ Range(Registry3) : site[p] = "ok" /\ rng[p] = "lo"
    /\ rng["batdongsan"] = rng["chotot"]

\* the caller asks the registry while no search of its own is running
get_availableAtRest == phase # "running" /\ get_available

NextFrame == Next \/ get_availableAtRest

SpecFrame == InitFrame /\ [][NextFrame]_vars

\* ------------------------------------------------------------------------
\* PoliteHttpClient.get_many on its own
\* ------------------------------------------------------------------------
\* URLs a caller can hand over: three that a site answers, and one urlparse
\* raises ValueError on, which get does not catch
UrlPool == {"https://a/ok", "https://a/gone", "https://b/down", "http://[bad"}

\* how self.get(url) ends once it is running: the tuple it returns, or the
\* exception it raises
GetEnd(u) ==
    CASE u = "https://a/ok" ->
            [raised |-> FALSE, body |-> "page", code |-> 200, err |-> "none"]
      [] u = "https://a/gone" ->
            [raised |-> FALSE, body |-> "none", code |-> 404,
             err |-> "Page not found"]
      [] u = "https://b/down" ->
            [raised |-> FALSE, body |-> "none", code |-> 0,
             err |-> "Request timed out"]
      [] u = "http://[bad" ->
            [raised |-> TRUE, body |-> "none", code |-> 0,
             err |-> "Invalid IPv6 URL"]

UrlLists == UNION {[1..k -> UrlPool] : k \in 0..MaxUrls}

\* a client at rest and the arguments of a get_many call
InitGetMany ==
    /\ InitState
    /\ NoDedup
    /\ AdaptersConstructed
    /\ rng = [p \in AllPlatforms |-> "lo"]
    /\ site = [p \in AllPlatforms |-> "ok"]
    /\ max_concurrent = DefaultMaxConcurrent
    /\ timeout_seconds = DefaultTimeoutSeconds
    /\ enabled_platforms = NoPlatforms
    /\ Registered(Registry3)
    /\ gm_urls \in UrlLists
    /\ gm_max_concurrent \in 1..MaxUrls
    /\ gm_pc = [call |-> "args", fetch |-> <<>>]
    /\ gm_queue = <<>>
    /\ gm_results = <<>>
    /\ gm_processed = <<>>
    /\ NoParse
    /\ NoGet

\* what the steps of get_many leave alone
OutsideGetMany ==
    /\ SearchAtRest
    /\ UNCHANGED <<now, registry, _instances, reg_log, dd_in, dd_out, dd_again,
                   dd_pc, _status, _blocked_until, _request_count, _error_count, available, gm_urls,
                   gm_max_concurrent, parse_call, parse_ret, getvars>>

NoFetchResult == [exception |-> FALSE, url |-> "", body |-> "none", code |-> 0,
                  err |-> "none"]

\* get_many up to the await of gather: one fetch_one task per url, each at
\* the door of the semaphore in the order of urls
get_many ==
    /\ gm_pc.call = "args"
    /\ gm_pc' = [call |-> "gather",
                 fetch |-> [i \in 1..Len(gm_urls) |-> "acquire"]]
    /\ gm_queue' = [i \in 1..Len(gm_urls) |-> i]
    /\ gm_results' = [i \in 1..Len(gm_urls) |-> NoFetchResult]
    /\ UNCHANGED gm_processed
    /\ OutsideGetMany

Fetching == {i \in 1..Len(gm_pc.fetch) : gm_pc.fetch[i] = "get"}

\* async with semaphore: the first waiter goes on when a permit is free
FetchAcquire(i) ==
    /\ gm_pc.call = "gather"
    /\ gm_queue # <<>>
    /\ Head(gm_queue) = i
    /\ Cardinality(Fetching) < gm_max_concurrent
    /\ gm_queue' = Tail(gm_queue)
    /\ gm_pc' = [gm_pc EXCEPT !.fetch[i] = "get"]
    /\ UNCHANGED <<gm_results, gm_processed>>
    /\ OutsideGetMany

\* fetch_one: the tuple of get with the url in front, or the exception get
\* raised
fetch_one(u) ==
    LET e == GetEnd(u)
    IN IF e.raised
       THEN [exception |-> TRUE, url |-> "", body |-> "none", code |-> 0,
             err |-> e.err]
       ELSE [exception |-> FALSE, url |-> u, body |-> e.body, code |-> e.code,
             err |-> e.err]

\* the get of a fetch_one ends, the permit is given back
FetchEnd(i) ==
    /\ gm_pc.call = "gather"
    /\ i \in Fetching
    /\ gm_pc' = [gm_pc EXCEPT !.fetch[i] = "done"]
    /\ gm_results' = [gm_results EXCEPT ![i] = fetch_one(gm_urls[i])]
    /\ UNCHANGED <<gm_queue, gm_processed>>
    /\ OutsideGetMany

GmTuple(url, body, code, err) ==
    [url |-> url, body |-> body, code |-> code, err |-> err]

\* the loop over results with the exceptions left out
ProcessedWithoutRaised(rs) ==
    LET kept == SelectSeq(rs, LAMBDA r : ~ r.exception)
    IN [i \in 1..Len(kept) |->
          GmTuple(kept[i].url, kept[i].body, kept[i].code, kept[i].err)]

\* the loop over results: (urls[i], None, None, str(result)) for an
\* exception, the tuple itself otherwise
Processed(rs) ==
    [i \in 1..Len(rs) |->
        IF rs[i].exception
        THEN GmTuple(gm_urls[i], "none", 0, rs[i].err)
        ELSE GmTuple(rs[i].url, rs[i].body, rs[i].code, rs[i].err)]

\* gather has every result: get_many builds processed and returns it
GetManyReturn ==
    /\ gm_pc.call = "gather"
    /\ \A i \in 1..Len(gm_pc.fetch) : gm_pc.fetch[i] = "done"
    /\ gm_processed' = Processed(gm_results)
    /\ gm_pc' = [gm_pc EXCEPT !.call = "returned"]
    /\ UNCHANGED <<gm_queue, gm_results>>
    /\ OutsideGetMany

NextGetMany ==
    \/ get_many
    \/ \E i \in 1..MaxUrls : FetchAcquire(i)
    \/ \E i \in 1..MaxUrls : FetchEnd(i)
    \/ GetManyReturn

SpecGetMany == InitGetMany /\ [][NextGetMany]_vars

\* ------------------------------------------------------------------------
\* The parse operations of the adapters on their own
\* ------------------------------------------------------------------------
\* cards a result page can hold: a title link with a relative href, one with
\* an absolute href and no price, a card without the title link, a title link
\* with an empty href
CardPool ==
    { Card(TRUE, Href("", <<"/nha-pr", "1", ".html">>), <<"A">>, "25 ty"),
      Card(TRUE, Href("https://batdongsan.com.vn", <<"/", "2", ".html">>), <<"B">>, ""),
      Card(FALSE, NoHref, <<"C">>, "5 ty"),
      Card(TRUE, NoHref, <<"D">>, "8 ty") }

\* elements "ads" can hold: an ad with a price, one without, one without
\* list_id, one that is not an object, one whose price is not a number
AdPool ==
    { Ad(TRUE, "1", <<"A">>, PyNum(25)),
      Ad(TRUE, "2", <<"B">>, PyNone),
      Ad(TRUE, "", <<"C">>, PyNum(5)),
      Ad(FALSE, "", <<"D">>, PyNone),
      Ad(TRUE, "5", <<"E">>, PyStr) }

ParseCalls ==
    [adapter : {"batdongsan", "mogi", "chotot", "nhatot"},
     operation : {"parse_search_results"},
     items : UNION {[1..k -> CardPool] : k \in 0..MaxItems}]
    \cup
    [adapter : {"chotot", "nhatot"},
     operation : {"parse_api_response"},
     items : UNION {[1..k -> AdPool] : k \in 0..MaxItems}]

\* an adapter and the items of a page handed to one of its parse operations
InitParse ==
    /\ InitState
    /\ NoDedup
    /\ AdaptersConstructed
    /\ NoGetMany
    /\ rng = [p \in AllPlatforms |-> "lo"]
    /\ site = [p \in AllPlatforms |-> "ok"]
    /\ max_concurrent = DefaultMaxConcurrent
    /\ timeout_seconds = DefaultTimeoutSeconds
    /\ enabled_platforms = NoPlatforms
    /\ Registered(Registry5)
    /\ parse_call \in ParseCalls
    /\ parse_ret = [returned |-> FALSE, listings |-> <<>>]
    /\ NoGet

\* the parse operation runs and returns its list
Parse ==
    /\ ~ parse_ret.returned
    /\ parse_ret' =
          [returned |-> TRUE,
           listings |->
              IF parse_call.operation = "parse_api_response"
              THEN parse_api_response(parse_call.adapter, parse_call.items)
              ELSE parse_search_results(parse_call.adapter, parse_call.items)]
    /\ SearchAtRest
    /\ UNCHANGED <<now, registry, _instances, reg_log, dd_in, dd_out, dd_again,
                   dd_pc, _status, _blocked_until, _request_count, _error_count, available, gmvars,
                   parse_call, getvars>>

NextParse == Parse

SpecParse == InitParse /\ [][NextParse]_vars

\* ------------------------------------------------------------------------
\* One PoliteHttpClient.get on its own: answers that differ from attempt to
\* attempt, User-Agent, cookie jar, proxy
\* ------------------------------------------------------------------------
\* the adapter whose search URL is fetched
GetPlatform == "chotot"

GetDomain == Domain(GetPlatform)

\* USER_AGENTS, by index
UserAgents == 1..NumUserAgents

\* what can come back for one request: the answers of a site, and the proxy
\* failing when the request goes through one
AnswerKinds(through_proxy) ==
    {"ok", "s403", "s403c", "s429", "s429ra", "s429date", "s404", "s400",
     "s5xx", "s5xxc", "connerr", "timeout"}
    \cup (IF through_proxy THEN {"proxyerr"} ELSE {})

\* a site whose answers differ from request to request
AnySite == "any"

\* what can come back for one request to the site of the get
SiteAnswers(through_proxy) ==
    IF site[GetPlatform] = AnySite
    THEN AnswerKinds(through_proxy)
    ELSE {site[GetPlatform]} \cup (IF through_proxy THEN {"proxyerr"} ELSE {})

\* the branch of get an answer takes
Class(k) ==
    LET r == Respond(k)
    IN CASE r.exc = "timeout" -> "timeout"
         [] r.exc = "connect" -> "connect"
         [] r.exc = "proxy" -> "proxy"
         [] r.code = 200 -> "200"
         [] r.code = 403 -> "403"
         [] r.code = 429 -> "429"
         [] r.code = 404 -> "404"
         [] r.code >= 500 -> "5xx"
         [] OTHER -> "other"

\* response.cookies: the names the Set-Cookie headers of the answer carry
SetCookie(k) ==
    CASE k = "s403c" -> {"trk"}
      [] k = "s5xxc" -> {"sid"}
      [] OTHER -> {}

\* response.headers.get("Retry-After", 60) and what int() makes of it: the
\* default, the seconds of the header, or ValueError for an HTTP-date
RetryAfter(k) ==
    CASE k = "s429ra" -> [raises |-> FALSE, seconds |-> RetryAfterSeconds]
      [] k = "s429date" -> [raises |-> TRUE, seconds |-> 0]
      [] OTHER -> [raises |-> FALSE, seconds |-> DefaultRetryAfter]

\* a proxy that counts once it is configured, enabled or not
_get_proxy_configIgnoringEnabled == proxy.configured

\* _get_proxy_config(), and the test self.proxy and self.proxy.enabled of get
_get_proxy_config == proxy.configured /\ proxy.enabled

\* _get_headers: the User-Agent it leaves in last_user_agent and returns, when
\* random.random() < 0.15 is reroll and _get_random_user_agent() gives u
_get_headers(ua, reroll, u) == IF ua = 0 \/ reroll THEN u ELSE ua

\* a loop that sleeps and goes round again after its last attempt
RetryAllowedOnLast(a) == a < max_retries

\* attempt < self.max_retries - 1
RetryAllowed(a) == a < max_retries - 1

\* a 403 branch that marks the domain blocked at every 403
Blocked403Each(d, a) == _mark_blocked(d, BlockSeconds403)

\* the 403 branch: _mark_blocked(domain, 60) once no attempt is left
Blocked403(d, a) ==
    IF RetryAllowed(a) THEN stats[d] ELSE _mark_blocked(d, BlockSeconds403)

\* What get does with answer k to the request of attempt a: return a tuple,
\* sleep and go round the loop, or go round it at once.
GetOutcome(k, a) ==
    LET r == Respond(k)
        d == GetDomain
        Back(ret, st) ==
            [end |-> "return", ret |-> ret, stats |-> st, store |-> FALSE,
             sleep |-> 0]
        Again(sleep, st) ==
            [end |-> "backoff", ret |-> NoRet, stats |-> st, store |-> FALSE,
             sleep |-> sleep]
        Retry(ret) ==
            IF RetryAllowed(a)
            THEN Again(BackoffRetry(GetPlatform, a), stats[d])
            ELSE Back(ret, stats[d])
    IN CASE r.exc = "timeout" -> Retry(Ret("none", 0, TRUE))
         [] r.exc = "connect" -> Retry(Ret("none", 0, TRUE))
         [] r.exc = "proxy" ->
              IF RetryAllowed(a)
              THEN [end |-> "continue", ret |-> NoRet, stats |-> stats[d],
                    store |-> FALSE, sleep |-> 0]
              ELSE Back(Ret("none", 0, TRUE), stats[d])
         [] r.exc = "none" /\ r.code = 200 ->
              [end |-> "return", ret |-> Ret(r.body, 200, FALSE),
               stats |-> _mark_success(d), store |-> TRUE, sleep |-> 0]
         [] r.exc = "none" /\ r.code = 403 ->
              IF RetryAllowed(a)
              THEN Again(Backoff403(GetPlatform, a), Blocked403(d, a))
              ELSE Back(Ret("none", 403, TRUE), Blocked403(d, a))
         [] r.exc = "none" /\ r.code = 429 ->
              IF RetryAfter(k).raises
              THEN Back(Ret("none", 0, TRUE), stats[d])
              ELSE Back(Ret("none", 429, TRUE),
                        _mark_blocked(d, RetryAfter(k).seconds))
         [] r.exc = "none" /\ r.code = 404 ->
              Back(Ret("none", 404, TRUE), stats[d])
         [] r.exc = "none" /\ r.code >= 500 -> Retry(Ret("none", r.code, TRUE))
         [] OTHER -> Back(Ret("none", r.code, TRUE), stats[d])

\* a client just constructed, with or without a proxy in its environment, and
\* an orchestrator with the default timeout or a longer one
InitGet ==
    /\ InitState
    /\ NoDedup
    /\ AdaptersConstructed
    /\ NoGetMany
    /\ NoParse
    /\ ClientConstructed
    /\ proxy \in {NoProxy, ProxyConfig(TRUE)}
    /\ \A p \in AllPlatforms \ {GetPlatform} : rng[p] = "lo"
    /\ site = [p \in AllPlatforms |-> IF p = GetPlatform THEN AnySite ELSE "ok"]
    /\ max_concurrent = DefaultMaxConcurrent
    /\ timeout_seconds \in {DefaultTimeoutSeconds, PatientTimeoutSeconds}
    /\ enabled_platforms = NoPlatforms
    /\ Registered(Registry3)

\* the same client and a get awaited with no wait_for around it, as fetch_one
\* of get_many awaits it; timeout_seconds = 0 stands for that
InitGetDirect ==
    /\ InitState
    /\ NoDedup
    /\ AdaptersConstructed
    /\ NoGetMany
    /\ NoParse
    /\ ClientConstructed
    /\ proxy \in {NoProxy, ProxyConfig(TRUE)}
    /\ \A p \in AllPlatforms \ {GetPlatform} : rng[p] = "lo"
    /\ site = [p \in AllPlatforms |-> IF p = GetPlatform THEN AnySite ELSE "ok"]
    /\ max_concurrent = DefaultMaxConcurrent
    /\ timeout_seconds = 0
    /\ enabled_platforms = NoPlatforms
    /\ Registered(Registry3)

\* what the steps of the get leave alone
OutsideGet ==
    /\ UNCHANGED <<site, rng, max_concurrent, timeout_seconds, phase, searches,
                   tpc, gpc, wake, deadline, attempt, result, orch_queue,
                   http_queue, agg, entry, got, net_count, sleeps, cancel_at,
                   fetch_start, fin, last_net, closest, enabled_platforms,
                   stats0>>
    /\ UNCHANGED <<registry, _instances, reg_log, dd_in, dd_out, dd_again,
                   dd_pc, _status, _blocked_until, _request_count, _error_count, available, gmvars,
                   parse_call, parse_ret>>

\* get returns ret; under wait_for, _search_platform makes its result of it
GetReturn(ret) ==
    /\ g_pc' = "returned"
    /\ g_ret' = ret
    /\ g_result' = IF timeout_seconds # 0 THEN Classify(GetPlatform, ret) ELSE NoResult

\* async with self._semaphore (no other get holds a permit), first iteration:
\* the sleep before the request
FirstAttempt ==
    /\ g_pc' = "presleep"
    /\ g_attempt' = 0
    /\ g_wake' = now + PreSleep(GetPlatform)

\* tail of _wait_for_rate_limit, _get_headers, _get_cookies,
\* _get_proxy_config, then into the loop
GetProceed(st) ==
    /\ stats' = [stats EXCEPT ![GetDomain] =
                    [st EXCEPT !.last_request_time = now,
                               !.request_count = @ + 1]]
    /\ \E reroll \in BOOLEAN, u \in UserAgents :
          /\ last_user_agent' = _get_headers(last_user_agent, reroll, u)
          /\ request_headers' = _get_headers(last_user_agent, reroll, u)
    /\ cookies' = _cookies
    /\ g_alias' = TRUE
    /\ proxy_url' = _get_proxy_config
    /\ FirstAttempt

\* what the client holds for the domain and the URL when get is called
ClientState ==
    [called |-> TRUE, at |-> now, stats |-> stats[GetDomain],
     cache |-> cache[Url(GetPlatform)], proxy |-> proxy,
     last_user_agent |-> last_user_agent, _last_referer |-> _last_referer,
     _cookies |-> _cookies]

\* get() up to its first suspension: cache check, block check, rate limiter
GetCall ==
    /\ g_pc = "none"
    /\ g_calls' = g_calls + 1
    /\ g_before' = ClientState
    /\ g_deadline' = IF timeout_seconds = 0 THEN 0 ELSE now + Sec(timeout_seconds)
    /\ LET d == GetDomain
           u == Url(GetPlatform)
           elapsed == now - stats[d].last_request_time
           unblocked == [stats[d] EXCEPT !.blocked_until = 0]
       IN IF CacheHit(u)
          THEN /\ GetReturn(Ret(cache[u].body, 200, FALSE))
               /\ UNCHANGED <<g_attempt, g_wake, stats, last_user_agent,
                              request_headers, cookies, g_alias, proxy_url>>
          ELSE IF _is_blocked(d) /\ ~ _get_proxy_config
          THEN /\ GetReturn(Ret("none", 403, TRUE))
               /\ UNCHANGED <<g_attempt, g_wake, stats, last_user_agent,
                              request_headers, cookies, g_alias, proxy_url>>
          ELSE IF elapsed < MinInterval
          THEN /\ g_pc' = "rate_wait"
               /\ g_wake' = now + RateWait(GetPlatform, elapsed)
               /\ stats' = [stats EXCEPT ![d] =
                               IF _is_blocked(d) THEN unblocked ELSE @]
               /\ UNCHANGED <<g_attempt, g_ret, g_result, last_user_agent,
                              request_headers, cookies, g_alias, proxy_url>>
          ELSE /\ GetProceed(IF _is_blocked(d) THEN unblocked ELSE stats[d])
               /\ UNCHANGED <<g_ret, g_result>>
    /\ UNCHANGED <<now, cache, g_net, g_backoffs, g_seen, g_last, proxy,
                   _cookies, g_sent, g_rot, _last_referer>>
    /\ OutsideGet

GetRunning == g_pc \in {"rate_wait", "presleep", "request", "backoff"}

GetTimers == {g_wake} \cup (IF g_deadline # 0 THEN {g_deadline} ELSE {})

\* the event loop has nothing runnable: time passes until the next timer
GetAdvance ==
    /\ GetRunning
    /\ \A t \in GetTimers : t > now
    /\ now' = MinOf(GetTimers)
    /\ UNCHANGED <<stats, cache, getvars>>
    /\ OutsideGet

\* a sleep of get() ends
GetWake ==
    /\ g_pc \in {"rate_wait", "presleep", "backoff"}
    /\ g_wake <= now
    /\ CASE g_pc = "rate_wait" ->
              /\ GetProceed(stats[GetDomain])
              /\ UNCHANGED <<g_net, g_last, g_sent, g_ret, g_result>>
         [] g_pc = "presleep" ->
              \* client.get(encoded_url, headers=request_headers) of an
              \* AsyncClient(cookies=cookies, proxies=proxy_url)
              /\ \E k \in SiteAnswers(proxy_url) :
                    /\ g_last' = k
                    /\ g_wake' = now + Latency(k)
              /\ g_pc' = "request"
              /\ g_net' = g_net + 1
              /\ g_sent' = [sent |-> TRUE, ua |-> request_headers,
                            cookies |-> cookies, proxy |-> proxy_url]
              /\ UNCHANGED <<g_attempt, stats, last_user_agent, request_headers,
                             cookies, g_alias, proxy_url, g_ret, g_result>>
         [] g_pc = "backoff" ->
              \* continue: the next iteration, or the end of range(max_retries)
              /\ IF g_attempt + 1 < max_retries
                 THEN /\ g_pc' = "presleep"
                      /\ g_attempt' = g_attempt + 1
                      /\ g_wake' = now + PreSleep(GetPlatform)
                      /\ UNCHANGED <<g_ret, g_result>>
                 ELSE /\ GetReturn(Ret("none", 0, TRUE))
                      /\ UNCHANGED <<g_attempt, g_wake>>
              /\ UNCHANGED <<g_net, g_last, g_sent, stats, last_user_agent,
                             request_headers, cookies, g_alias, proxy_url>>
    /\ UNCHANGED <<now, cache, g_deadline, g_backoffs, g_seen, proxy, _cookies,
                   g_rot, _last_referer, g_calls, g_before>>
    /\ OutsideGet

\* the answer to the request in flight arrives, or its exception is raised
GetResponse ==
    /\ g_pc = "request"
    /\ g_wake <= now
    /\ LET k == g_last
           r == Respond(k)
           d == GetDomain
           u == Url(GetPlatform)
           out == GetOutcome(k, g_attempt)
           \* cookies.update(response.cookies)
           jar == IF r.exc = "none" THEN cookies \cup SetCookie(k) ELSE cookies
           marks == out.stats.blocked_until # stats[d].blocked_until
                    /\ out.stats.blocked_until # 0
       IN /\ g_seen' = g_seen \cup {Class(k)}
          /\ stats' = [stats EXCEPT ![d] = out.stats]
          /\ cache' = IF out.store
                      THEN [cache EXCEPT ![u] =
                              [body |-> out.ret.body,
                               expires |-> now + Sec(CacheTtlSeconds)]]
                      ELSE cache
          /\ cookies' = jar
          \* self._last_referer[domain] = encoded_url
          /\ _last_referer' = IF r.exc = "none" THEN u ELSE _last_referer
          /\ IF Class(k) = "403"
             THEN \* a new User-Agent, self._cookies[domain] = httpx.Cookies(),
                  \* request_headers rebuilt; _mark_blocked rotates once more
                  /\ \E u1, u2, u3 \in UserAgents, reroll \in BOOLEAN :
                        /\ request_headers' = _get_headers(u1, reroll, u2)
                        /\ last_user_agent' =
                              IF marks THEN u3
                              ELSE _get_headers(u1, reroll, u2)
                  /\ _cookies' = {}
                  /\ g_alias' = FALSE
                  /\ g_rot' = [rotated |-> TRUE, ua |-> request_headers',
                               jar |-> jar]
             ELSE /\ IF marks
                     THEN \E u3 \in UserAgents : last_user_agent' = u3
                     ELSE UNCHANGED last_user_agent
                  /\ _cookies' = IF g_alias THEN jar ELSE _cookies
                  /\ g_rot' = NoRot
                  /\ UNCHANGED <<request_headers, g_alias>>
          /\ proxy' = IF r.exc = "proxy" /\ proxy.configured
                      THEN ProxyConfig(FALSE) ELSE proxy
          /\ CASE out.end = "return" ->
                    /\ GetReturn(out.ret)
                    /\ UNCHANGED <<g_attempt, g_wake, g_backoffs>>
               [] out.end = "backoff" ->
                    /\ g_pc' = "backoff"
                    /\ g_wake' = now + out.sleep
                    /\ g_backoffs' = g_backoffs + 1
                    /\ UNCHANGED <<g_attempt, g_ret, g_result>>
               [] out.end = "continue" ->
                    /\ g_pc' = "presleep"
                    /\ g_attempt' = g_attempt + 1
                    /\ g_wake' = now + PreSleep(GetPlatform)
                    /\ UNCHANGED <<g_backoffs, g_ret, g_result>>
    /\ UNCHANGED <<now, g_deadline, g_net, g_last, proxy_url, g_sent, g_calls,
                   g_before>>
    /\ OutsideGet

\* asyncio.wait_for expires: the get is cancelled at its await and
\* _search_platform returns its TIMEOUT result
GetTimeout ==
    /\ GetRunning
    /\ g_deadline # 0
    /\ g_deadline <= now
    /\ g_pc' = "cancelled"
    /\ g_result' = TimeoutResult(GetPlatform)
    /\ UNCHANGED <<now, stats, cache, g_attempt, g_wake, g_deadline, g_net,
                   g_backoffs, g_seen, g_last, g_ret, proxy, proxy_url,
                   last_user_agent, request_headers, _cookies, cookies, g_alias,
                   g_sent, g_rot, _last_referer, g_calls, g_before>>
    /\ OutsideGet

NextGet ==
    \/ GetCall
    \/ GetAdvance
    \/ GetWake
    \/ GetResponse
    \/ GetTimeout

SpecGet == InitGet /\ [][NextGet]_vars

NextGetDirect ==
    \/ GetCall
    \/ GetAdvance
    \/ GetWake
    \/ GetResponse

\* the event loop runs what is runnable and lets time pass, and every request
\* sent is answered or times out
SpecGetDirect == InitGetDirect /\ [][NextGetDirect]_vars /\ WF_vars(NextGetDirect)

\* ------------------------------------------------------------------------
\* Several gets of one URL, one after the other, on one client
\* ------------------------------------------------------------------------
\* what the site answers to every request of the run
GetSites == {"ok", "s429", "s403", "s404"}

\* seconds between the return of a get and the next call
CallGaps == {1, IdleGapSeconds}

\* a client just constructed, with no proxy in its environment, with one, or
\* with one that is disabled; each get awaited with no wait_for around it
InitGets ==
    /\ InitState
    /\ NoDedup
    /\ AdaptersConstructed
    /\ NoGetMany
    /\ NoParse
    /\ ClientConstructed
    /\ proxy \in {NoProxy, ProxyConfig(TRUE), ProxyConfig(FALSE)}
    /\ rng = [p \in AllPlatforms |-> "lo"]
    /\ site \in {[p \in AllPlatforms |-> IF p = GetPlatform THEN k ELSE "ok"] :
                    k \in GetSites}
    /\ max_concurrent = DefaultMaxConcurrent
    /\ timeout_seconds = 0
    /\ enabled_platforms = NoPlatforms
    /\ Registered(Registry3)

\* the caller, some time after a get has returned, is about to call get
\* again: the locals of the call that returned are gone, what the client
\* holds stays
GetAgain ==
    /\ g_pc = "returned"
    /\ g_calls < MaxGets
    /\ \E gap \in CallGaps : now' = now + Sec(gap)
    /\ g_pc' = "none"
    /\ g_attempt' = 0
    /\ g_wake' = 0
    /\ g_deadline' = 0
    /\ g_net' = 0
    /\ g_backoffs' = 0
    /\ g_seen' = {}
    /\ g_last' = NoAnswer
    /\ g_ret' = NoRet
    /\ g_result' = NoResult
    /\ proxy_url' = FALSE
    /\ request_headers' = 0
    /\ cookies' = {}
    /\ g_alias' = FALSE
    /\ g_sent' = NoSent
    /\ g_rot' = NoRot
    /\ UNCHANGED <<stats, cache, proxy, last_user_agent, _cookies,
                   _last_referer, g_calls, g_before>>
    /\ OutsideGet

NextGets ==
    \/ GetCall
    \/ GetAdvance
    \/ GetWake
    \/ GetResponse
    \/ GetAgain

SpecGets == InitGets /\ [][NextGets]_vars

\* ------------------------------------------------------------------------
\* Deduplication
\* ------------------------------------------------------------------------
\* the elements of ls whose key K no earlier element of ls has, in order
FirstOccurrences(ls, K(_)) ==
    LET F[i \in 0..Len(ls)] ==
            IF i = 0 THEN <<>>
            ELSE IF \A j \in 1..(i - 1) : K(ls[j]) # K(ls[i])
                 THEN Append(F[i - 1], ls[i])
                 ELSE F[i - 1]
    IN F[Len(ls)]

\* the key as the claim words it: 50 characters of the lower-cased, trimmed
\* title, and the price, or nothing when the listing has no price
KeyAsClaimed(l) ==
    [title |-> Take(Strip(Lower(l.title)), 50),
     absent |-> (l.price = NoPrice),
     amount |-> IF l.price = NoPrice THEN 0 ELSE l.price]

\* the same key, a price of zero counting as no price
KeyZeroAbsent(l) ==
    [title |-> Take(Strip(Lower(l.title)), 50),
     absent |-> (l.price = NoPrice \/ l.price = 0),
     amount |-> IF l.price = NoPrice \/ l.price = 0 THEN 0 ELSE l.price]

C13_Idempotent ==
    dd_pc = "twice" => dd_again = dd_out

\* a second pass over a result from which the first pass had dropped listings
C13_Witness ==
    /\ dd_pc = "twice"
    /\ Len(dd_in) = 3
    /\ Len(dd_out) = 2
    /\ dd_again = dd_out
    /\ dd_in[1].id # dd_in[2].id
    /\ DedupKey(dd_in[1]) = DedupKey(dd_in[2])

\* ------------------------------------------------------------------------
\* Registry
\* ------------------------------------------------------------------------
RegisteredIds == {platform_id(reg_log[i]) : i \in 1..Len(reg_log)}

\* the last register call made for id p
LastCall(p) ==
    CHOOSE i \in 1..Len(reg_log) :
        /\ platform_id(reg_log[i]) = p
        /\ \A j \in (i + 1)..Len(reg_log) : platform_id(reg_log[j]) # p

\* C20: after any sequence of register calls the registry holds one instance
\* for each platform id registered, the one the last register call for that
\* id made; get returns it, and nothing for an id never registered; get_all
\* returns these instances and no other.
C20_LastRegistered ==
    /\ Range(registry) = RegisteredIds
    /\ Len(registry) = Cardinality(RegisteredIds)
    /\ \A p \in RegisteredIds :
          get(p) = Instance(reg_log[LastCall(p)], LastCall(p))
    /\ \A p \in AllPlatforms \ RegisteredIds : get(p) = NoInstance
    /\ DOMAIN get_all = RegisteredIds
    /\ \A p \in RegisteredIds : get_all[p] = get(p)

\* an id registered, another registered, and the first registered again
C20_Witness ==
    /\ Len(reg_log) = 3
    /\ reg_log[1] = "ChototAdapter"
    /\ reg_log[2] = "MogiAdapter"
    /\ reg_log[3] = "ChototAdapter"
    /\ get("chotot").serial = 3
    /\ registry = <<"chotot", "mogi">>

\* ------------------------------------------------------------------------
\* Aggregation order
\* ------------------------------------------------------------------------
\* the listings of the candidates' results, candidate after candidate
RECURSIVE InRegistryOrder(_)
InRegistryOrder(n) ==
    IF n = 0 THEN <<>>
    ELSE InRegistryOrder(n - 1) \o result[Platforms[n]].listings

Position(p) == CHOOSE i \in 1..Len(Platforms) : Platforms[i] = p

\* C12: the listings search returns are the deduplication of the platforms'
\* listings taken in registry order, so a listing that is kept has no listing
\* of the same key on a platform registered earlier, whatever the order in
\* which the platform tasks finished.
C12_RegistryOrderWins ==
    phase = "returned" =>
        /\ agg.listings = FirstOccurrences(InRegistryOrder(Len(Platforms)), KeyZeroAbsent)
        /\ \A j \in 1..Len(agg.listings) :
             \A q \in Candidates :
                 Position(q) < Position(agg.listings[j].platform) =>
                     \A i \in 1..Len(result[q].listings) :
                         KeyZeroAbsent(result[q].listings[i])
                             # KeyZeroAbsent(agg.listings[j])

\* nhatot finished before chotot, both have a listing of one key, and the
\* one of chotot, registered first, is in the result
C12_Witness ==
    /\ phase = "returned"
    /\ searches = 1
    /\ result["chotot"].status = "SUCCESS"
    /\ result["nhatot"].status = "SUCCESS"
    /\ fin["nhatot"] < fin["chotot"]
    /\ KeyZeroAbsent(Page("nhatot")[1]) = KeyZeroAbsent(Page("chotot")[3])
    /\ Kept(Page("chotot")[3])
    /\ ~ Kept(Page("nhatot")[1])

\* ------------------------------------------------------------------------
\* Concurrency caps
\* ------------------------------------------------------------------------
InFlight(d) == {p \in AllPlatforms : gpc[p] = "request" /\ Domain(p) = d}

\* C14: at every moment at most 3 gets of the client are between acquiring
\* and releasing its semaphore, so at most 3 requests are in flight to any one
\* domain, with max_concurrent above 3 and two adapters on one domain.
C14_TransportCap ==
    /\ Cardinality(HttpHolders) <= 3
    /\ \A d \in Domains : Cardinality(InFlight(d)) <= 3

\* five tasks past the orchestrator's semaphore, three permits taken, two of
\* them by requests in flight to the domain chotot and nhatot share
C14_Witness ==
    /\ max_concurrent > 3
    /\ Cardinality(HttpHolders) = 3
    /\ InFlight("gateway.chotot.com") = {"chotot", "nhatot"}
    /\ tpc["alonhadat"] = "fetching"

\* C15: at every moment at most max_concurrent platform tasks are past the
\* orchestrator's semaphore and not yet done, and a task that waits for it has
\* called no get and sent no request.
C15_OrchestratorCap ==
    /\ Cardinality(OrchHolders) <= max_concurrent
    /\ \A p \in AllPlatforms :
          tpc[p] = "wait_sem" =>
              /\ ~ entry[p].called
              /\ gpc[p] = "none"
              /\ net_count[p] = 0

\* two permits, both taken by tasks with a request in flight, a third task
\* waiting
C15_Witness ==
    /\ max_concurrent = 2
    /\ Cardinality(OrchHolders) = 2
    /\ \A p \in OrchHolders : gpc[p] = "request"
    /\ \E p \in Candidates : tpc[p] = "wait_sem"

\* ------------------------------------------------------------------------
\* Per-domain counters
\* ------------------------------------------------------------------------
\* gets of the running search that went past the cache and block checks
PastChecks(d) ==
    {p \in Candidates : /\ Domain(p) = d
                        /\ entry[p].called
                        /\ ~ entry[p].cached
                        /\ ~ entry[p].blocked}

\* gets of the running search that a 200 response ended
Ended200(d) ==
    {p \in Candidates : /\ Domain(p) = d
                        /\ got[p].returned
                        /\ got[p].code = 200
                        /\ ~ entry[p].cached}

C17_HtmlFallback ==
    \A p \in Candidates :
        ( /\ supports_api(p)
          /\ tpc[p] = "done"
          /\ got[p].returned
          /\ ~ got[p].err
          /\ got[p].body \in {"html", "empty"} ) =>
            result[p] = PSR(p, "SUCCESS", parse_search_results(p, Select(p, "html")), "NONE")

\* C17 (amended): the same, for a body that is not empty.
C17_HtmlFallbackNonEmpty ==
    \A p \in Candidates :
        ( /\ supports_api(p)
          /\ tpc[p] = "done"
          /\ got[p].returned
          /\ ~ got[p].err
          /\ got[p].body = "html" ) =>
            result[p] = PSR(p, "SUCCESS", parse_search_results(p, Select(p, "html")), "NONE")

\* chotot was served an HTML page and nhatot the JSON asked for; both count
\* as successful
C17_Witness ==
    /\ phase = "returned"
    /\ got["chotot"].body = "html"
    /\ result["chotot"].status = "SUCCESS"
    /\ got["nhatot"].body = "page"
    /\ result["nhatot"].listings = Page("nhatot")
    /\ agg.platforms_successful >= 2

\* the parse of the body p's get returned raised
ParseRaised(p) ==
    /\ tpc[p] = "done"
    /\ got[p].returned
    /\ ~ got[p].err
    /\ got[p].body = "garbage"

\* C18: a platform whose parse raised ends ERROR with kind PARSE_ERROR and no
\* listings, holding no semaphore; every other platform of the search that
\* was served its page ends SUCCESS with the listings of that page, and the
\* result search returns has the result of every platform as its task
\* returned it.
C18_ParseErrorContained ==
    \A p \in Candidates :
        ParseRaised(p) =>
            /\ result[p] = PSR(p, "ERROR", <<>>, "PARSE_ERROR")
            /\ gpc[p] = "returned"
            /\ p \notin HttpHolders
            /\ \A q \in Candidates \ {p} :
                  (tpc[q] = "done" /\ got[q].returned /\ ~ got[q].err
                     /\ got[q].body = "page") =>
                      /\ result[q].status = "SUCCESS"
                      /\ result[q].listings = Page(q)
            /\ phase = "returned" =>
                  /\ \A q \in Candidates :
                        \E i \in 1..Len(agg.platform_results) :
                            agg.platform_results[i] = result[q]
                  /\ \A q \in Candidates \ {p} :
                        result[q].status = "SUCCESS" =>
                            \A i \in 1..Len(result[q].listings) :
                                KeptKey(result[q].listings[i])

\* chotot's parse raised; batdongsan and nhatot, fetched in the same search,
\* succeeded and their listings came back
C18_Witness ==
    /\ phase = "returned"
    /\ searches = 1
    /\ ParseRaised("chotot")
    /\ result["chotot"].error_type = "PARSE_ERROR"
    /\ result["batdongsan"].status = "SUCCESS"
    /\ result["nhatot"].status = "SUCCESS"
    /\ agg.platforms_error = 1
    /\ agg.total_listings = 3

\* ------------------------------------------------------------------------
\* Candidates
\* ------------------------------------------------------------------------
\* the candidates as the claim words them
ClaimedCandidates ==
    IF enabled_platforms.given
    THEN Range(registry) \cap enabled_platforms.ids
    ELSE Range(registry)

\* C19 (as claimed): search creates a task for every registered adapter when
\* the caller gave no list of platforms, and otherwise for exactly the
\* registered adapters whose id is in the list given; with no candidate it
\* returns at once a result with no listings, no platform results and every
\* count 0, and calls no get.
C19_Candidates ==
    phase # "idle" =>
        /\ {p \in AllPlatforms : tpc[p] # "idle"} = ClaimedCandidates
        /\ ClaimedCandidates = {} =>
              /\ phase = "returned"
              /\ agg = [NoAgg EXCEPT !.returned = TRUE]
              /\ \A p \in AllPlatforms : ~ entry[p].called

\* ------------------------------------------------------------------------
\* Adapter status
\* ------------------------------------------------------------------------
\* the adapters the claim has get_available return when called at time t
ActiveAt(t) ==
    {p \in Range(registry) : ~ (_blocked_until[p] # 0 /\ t < _blocked_until[p])}

TupleOf(u) == GmTuple(u, GetEnd(u).body, GetEnd(u).code, GetEnd(u).err)

WellFormed(item) ==
    IF parse_call.operation = "parse_api_response"
    THEN item.dict /\ item.list_id # "" /\ item.price.type # "str"
    ELSE item.link /\ item.href # NoHref

TitleOf(item) ==
    IF parse_call.operation = "parse_api_response" THEN item.subject
    ELSE item.title

\* the titles of the well-formed items of the page, in page order
WellFormedTitles ==
    LET kept == SelectSeq(parse_call.items, WellFormed)
    IN [i \in 1..Len(kept) |-> TitleOf(kept[i])]

\* C23 (as claimed): parse_search_results and parse_api_response return one
\* listing for every well-formed item of the page, in page order; an item
\* that raises or lacks its link, title or native id is skipped and changes
\* nothing for the others.
C23_TolerantParse ==
    parse_ret.returned =>
        [i \in 1..Len(parse_ret.listings) |-> parse_ret.listings[i].title]
            = WellFormedTitles

IsAbsolute(url) == url.base # ""

NonEmpty(parts) == \E i \in 1..Len(parts) : parts[i] # ""

Handled == g_net > 0 /\ g_pc \notin {"request", "cancelled"}

\* C25: a get whose every attempt is answered 403 makes max_retries requests
\* with a backoff sleep between consecutive ones, and only then blocks the
\* domain for 60 seconds and returns 403 with an error, which makes the
\* platform BLOCKED; until then the domain is not blocked.
C25_Exhaustion403 ==
    /\ (g_pc = "returned" /\ g_seen = {"403"}) =>
          /\ g_net = max_retries
          /\ g_backoffs = max_retries - 1
          /\ g_ret.code = 403
          /\ g_ret.err
          /\ g_ret.body = "none"
          /\ stats[GetDomain].blocked_until = now + Sec(60)
          /\ g_result.status = "BLOCKED"
    /\ (g_pc # "returned" /\ g_seen \subseteq {"403"}) =>
          /\ stats[GetDomain].blocked_until = 0
          /\ g_pc = "request" => g_backoffs = g_net - 1

C25_Witness ==
    /\ g_pc = "returned"
    /\ g_seen = {"403"}
    /\ g_net = max_retries
    /\ stats[GetDomain].blocked_until = now + Sec(60)
    /\ g_result.error_type = "BLOCKED"

\* C26: the request that follows a 403 carries the User-Agent chosen when
\* the 403 was handled and none of the cookies the jar held once the 403
\* response had been taken in.
C26_RotatedIdentity ==
    (g_pc = "request" /\ g_rot.rotated) =>
        /\ g_sent.ua = g_rot.ua
        /\ g_sent.cookies \cap g_rot.jar = {}

\* C27: a 429 ends the get at once, blocks the domain for the Retry-After
\* duration (60 seconds without the header) and is classified RATE_LIMITED.
C27_RateLimited ==
    (Handled /\ Class(g_last) = "429") =>
        /\ g_pc = "returned"
        /\ g_ret.code = 429
        /\ g_result.error_type = "RATE_LIMITED"
        /\ CASE g_last = "s429" ->
                  stats[GetDomain].blocked_until = now + Sec(60)
             [] g_last = "s429ra" ->
                  stats[GetDomain].blocked_until = now + Sec(RetryAfterSeconds)
             [] OTHER -> stats[GetDomain].blocked_until > now

\* C28: a get whose every attempt timed out has used the whole retry budget
\* and is classified TIMEOUT; one whose every attempt failed to connect is
\* classified NETWORK_ERROR.
C28_ExhaustionKinds ==
    /\ (g_pc = "returned" /\ g_seen = {"timeout"}) =>
          /\ g_net = max_retries
          /\ g_backoffs = max_retries - 1
          /\ g_result.error_type = "TIMEOUT"
    /\ (g_pc = "returned" /\ g_seen = {"connect"}) =>
          /\ g_net = max_retries
          /\ g_backoffs = max_retries - 1
          /\ g_result.error_type = "NETWORK_ERROR"

\* C29: a 404 ends the get at once, with no sleep after it, is classified
\* NOT_FOUND, and leaves the block and the error counter of the domain as
\* they were.
C29_NotFound ==
    (Handled /\ g_last = "s404") =>
        /\ g_pc = "returned"
        /\ g_ret.code = 404
        /\ g_result.error_type = "NOT_FOUND"
        /\ stats[GetDomain].blocked_until = 0
        /\ stats[GetDomain].error_count = 0

\* statuses get does not retry
NonRetryable == {"200", "404", "429", "other"}

GetBounded ==
    /\ g_net <= max_retries
    /\ (Handled /\ Class(g_last) \in NonRetryable) => g_pc = "returned"
    /\ (Handled /\ Class(g_last) = "5xx" /\ g_net = max_retries) =>
          /\ g_pc = "returned"
          /\ g_ret.code = 500
          /\ g_ret.err

\* C30: every get returns; it sends at most max_retries requests whatever
\* the answers are, returns on the first answer that is not retried, and
\* returns a 5xx to its last request as an error with that status.
C30_Terminates == [] GetBounded /\ <>(g_pc = "returned")

C30_Witness ==
    /\ g_pc = "returned"
    /\ g_net = max_retries
    /\ Class(g_last) = "5xx"
    /\ {"403", "timeout", "connect", "proxy"} \subseteq g_seen
    /\ g_ret.code = 500

\* ------------------------------------------------------------------------
\* Proxy
\* ------------------------------------------------------------------------
\* C32: once an attempt of a get has raised a proxy error the proxy of the
\* client is disabled, and the requests the get sends after it do not go
\* through the proxy.
C32_ProxyDropped ==
    ("proxy" \in g_seen) =>
        /\ ~ proxy.enabled
        /\ (g_pc = "request" => ~ g_sent.proxy)

\* ------------------------------------------------------------------------
\* Response cache
\* ------------------------------------------------------------------------
\* when the body the cache holds for the URL of p was stored
StoredAt(p) == cache[Url(p)].expires - Sec(300)

\* the get of p was called while the cache held a body for its URL, stored
\* by an earlier get less than the TTL before
CalledWithinTtl(p) ==
    /\ tpc[p] \in {"fetching", "done"}
    /\ cache[Url(p)].expires # 0
    /\ StoredAt(p) < fetch_start[p]
    /\ fetch_start[p] < StoredAt(p) + Sec(300)

\* C33: a get called while the cache holds a body stored for its URL less
\* than the TTL before returns that body with status 200 and no error at
\* once, with no request and no sleep; and a body in the cache is the body of
\* a 200 response.
C33_CacheHit ==
    /\ \A p \in Candidates :
          CalledWithinTtl(p) =>
              /\ tpc[p] = "done"
              /\ got[p] = Ret(cache[Url(p)].body, 200, FALSE)
              /\ fin[p] = fetch_start[p]
              /\ net_count[p] = 0
              /\ sleeps[p] = 0
    /\ \A p \in AllPlatforms :
          cache[Url(p)].expires # 0 =>
              /\ Respond(site[p]).code = 200
              /\ cache[Url(p)].body = Respond(site[p]).body

\* a second search whose get for chotot was answered from the cache, 65 s
\* after the first search stored the page
C33_Witness ==
    /\ searches = 2
    /\ CalledWithinTtl("chotot")
    /\ got["chotot"] = Ret("page", 200, FALSE)
    /\ net_count["chotot"] = 0
    /\ result["chotot"].status = "SUCCESS"

\* ------------------------------------------------------------------------
\* Domain blocks during a search
\* ------------------------------------------------------------------------
\* C36: a block that is in force, and still is after the step, is not
\* cleared or shortened by the step.
C36_BlockStays ==
    [][\A d \in Domains :
          (stats[d].blocked_until > now /\ stats[d].blocked_until > now') =>
              stats'[d].blocked_until >= stats[d].blocked_until]_vars

\* C37: no request is sent to a domain whose blocked_until is in the future.
C37_NoRequestWhileBlocked ==
    [][\A p \in AllPlatforms :
          net_count'[p] > net_count[p] =>
              ~ (stats[Domain(p)].blocked_until > now)]_vars

\* ------------------------------------------------------------------------
\* Life of a platform task
\* ------------------------------------------------------------------------
TerminalStatuses == {"SUCCESS", "PARTIAL", "BLOCKED", "ERROR", "TIMEOUT"}

\* a task of the running search has a result once it has ended, with one of
\* the terminal statuses, and none before
OneTerminalStatus ==
    \A p \in Candidates :
        /\ tpc[p] = "done" => result[p].status \in TerminalStatuses
        /\ tpc[p] \in {"wait_sem", "fetching"} => result[p] = NoResult

\* within one search: a task that has called get does not call it again, and
\* a task that has ended keeps its result and its get sends nothing more
NoSecondRun ==
    \A p \in AllPlatforms :
        searches' = searches =>
            /\ tpc[p] \in {"fetching", "done"} =>
                  /\ tpc'[p] \in {"fetching", "done"}
                  /\ fetch_start'[p] = fetch_start[p]
                  /\ entry'[p] = entry[p]
            /\ tpc[p] = "done" =>
                  /\ tpc'[p] = "done"
                  /\ result'[p] = result[p]
                  /\ net_count'[p] = net_count[p]

\* C34: within one search each candidate's task fetches at most once and
\* ends in exactly one terminal status, which no later step of the search
\* changes; a platform that failed is not fetched again.
C34_TerminalOnce == [] OneTerminalStatus /\ [][NoSecondRun]_vars

\* a search still running in which one platform has ended in ERROR after a
\* single request and another in SUCCESS
C34_Witness ==
    /\ phase = "running"
    /\ tpc["nhatot"] = "fetching"
    /\ result["batdongsan"].status = "ERROR"
    /\ net_count["batdongsan"] = 1
    /\ result["chotot"].status = "SUCCESS"

\* ------------------------------------------------------------------------
\* Shape of a PlatformSearchResult
\* ------------------------------------------------------------------------
\* the get of p returned a body that is not empty, with no error
BodyReturned(p) ==
    /\ got[p].returned
    /\ ~ got[p].err
    /\ got[p].body \notin {"none", "empty"}

\* a result other than SUCCESS has no listings, an error and an error kind;
\* a SUCCESS has no error
WellShaped(r) ==
    /\ r.status # "SUCCESS" =>
          /\ r.listings = <<>>
          /\ r.error # "None"
          /\ r.error_type # "NONE"
    /\ r.status = "SUCCESS" => r.error = "None"

\* C38: a task's result is SUCCESS exactly when its get returned a non-empty
\* body with no error and the parse did not raise; every other result has no
\* listings and has an error and an error kind, and a SUCCESS has no error.
C38_ResultShape ==
    /\ \A p \in Candidates :
          tpc[p] = "done" =>
              /\ result[p].status = "SUCCESS" <=>
                    (BodyReturned(p) /\ ~ ParseRaised(p))
              /\ WellShaped(result[p])
    /\ \A i \in 1..Len(agg.platform_results) :
          WellShaped(agg.platform_results[i])

\* a search that returned a SUCCESS with listings, an ERROR for an empty 200
\* body and an ERROR for a body the parse raised on
C38_Witness ==
    /\ phase = "returned"
    /\ got["batdongsan"] = Ret("empty", 200, FALSE)
    /\ result["batdongsan"].status = "ERROR"
    /\ ParseRaised("nhatot")
    /\ result["nhatot"].error_type = "PARSE_ERROR"
    /\ result["chotot"].status = "SUCCESS"
    /\ result["chotot"].listings # <<>>
    /\ Len(agg.platform_results) = 3

\* ------------------------------------------------------------------------
\* Termination of a search
\* ------------------------------------------------------------------------
\* C35: every search that has started returns, no task stays for ever at the
\* semaphore of the orchestrator, and no get stays for ever at the semaphore
\* of the transport.
C35_SearchReturns ==
    /\ (phase = "running") ~> (phase = "returned")
    /\ \A p \in AllPlatforms : (tpc[p] = "wait_sem") ~> (tpc[p] # "wait_sem")
    /\ \A p \in AllPlatforms : (gpc[p] = "sem_wait") ~> (gpc[p] # "sem_wait")

\* a search of five platforms under two permits has returned: sites that
\* never answered, and a get that waited for a permit of the transport
C35_Witness ==
    /\ phase = "returned"
    /\ max_concurrent = 2
    /\ agg.platforms_searched = 5
    /\ site["batdongsan"] = "hang"
    /\ site["mogi"] = "s403"
    /\ site["alonhadat"] = "ok"
    /\ result["batdongsan"].status = "TIMEOUT"
    /\ result["alonhadat"].status \in TerminalStatuses

\* ------------------------------------------------------------------------
\* What a search leaves of the registry and of the adapters
\* ------------------------------------------------------------------------
AdapterState ==
    <<registry, _instances, _status, _blocked_until, _request_count, _error_count>>

\* C39: no step of a search changes the registry or an adapter's status
\* field, block time, request counter or error counter; every registered
\* adapter reads ACTIVE as it did when it was constructed, whatever its
\* platform's search ended in; and every get_available call returns the
\* adapters the call before it returned, all the registered ones.
C39_AdaptersUntouched ==
    /\ [][AdapterState' = AdapterState]_vars
    /\ [](\A p \in Range(registry) : status(p) = "ACTIVE")
    /\ [](available.called => available.ids = registry)
    /\ [][(available.called /\ available'.called) => available'.ids = available.ids]_vars

\* get_available was called after a search in which one platform was
\* reported BLOCKED and one ended in an error
C39_Witness ==
    /\ phase = "returned"
    /\ available.called
    /\ available.at = now
    /\ now > StartTime
    /\ \E p \in Range(registry) : result[p].status = "BLOCKED"
    /\ \E p \in Range(registry) : result[p].status = "ERROR"
    /\ _request_count = [p \in AllPlatforms |-> 0]

\* ------------------------------------------------------------------------
\* A get called for a blocked domain or a cached URL
\* ------------------------------------------------------------------------
\* the domain was blocked when the latest get was called
BlockedAtCall == g_before.called /\ g_before.stats.blocked_until > g_before.at

\* the URL had an entry in the cache when the latest get was called
CachedAtCall ==
    g_before.called /\ g_before.cache.expires # 0 /\ g_before.at < g_before.cache.expires

\* a proxy was configured and enabled when the latest get was called
ProxyAtCall == g_before.called /\ g_before.proxy.configured /\ g_before.proxy.enabled

\* a get is called for a blocked domain and its URL is not in the cache
CalledBlocked ==
    /\ g_pc = "none"
    /\ g_pc' # "none"
    /\ stats[GetDomain].blocked_until > now
    /\ ~ (cache[Url(GetPlatform)].expires # 0 /\ now < cache[Url(GetPlatform)].expires)

SameAsAtCall ==
    /\ stats[GetDomain] = g_before.stats
    /\ last_user_agent = g_before.last_user_agent
    /\ _last_referer = g_before._last_referer
    /\ _cookies = g_before._cookies

\* C40: a get that found its URL in the cache, or found the domain blocked
\* with no proxy enabled, has returned with the domain's counters, last
\* request time, consecutive-403 count, block time, last User-Agent, referer
\* and cookie jar as they were when it was called.
C40_EarlyReturnsLeaveState ==
    (g_pc = "returned" /\ (CachedAtCall \/ (BlockedAtCall /\ ~ ProxyAtCall))) =>
        SameAsAtCall

\* a get refused for the block of a 429 has returned: the domain has a
\* request counted, a User-Agent and a referer from the get before it
C40_Witness ==
    /\ g_pc = "returned"
    /\ BlockedAtCall
    /\ ~ CachedAtCall
    /\ ~ ProxyAtCall
    /\ g_ret.code = 403
    /\ g_before.stats.request_count > 0
    /\ g_before.last_user_agent # 0
    /\ g_before._last_referer # NoReferer

====
